---- MODULE Spec2Model ----
(***************************************************************************)
(* Model of the Divan-e Kabir multi-pass translation pipeline              *)
(* (src/pipeline.py and the prompt builders of src/agents).                *)
(*                                                                         *)
(* A text (a Python str holding a model response) is a sequence of         *)
(* lexemes [k, s]: k = "p" punctuation, "nl" newline, "tick" a backtick,   *)
(* "str" a double-quoted JSON string literal with content s, "lit" a bare  *)
(* JSON literal (number, true, false, null), "word" any other bare word.   *)
(* A parsed JSON value is a tagged record [t, v]: "obj" (v a function from *)
(* keys to values), "arr" (v a sequence), "str" (v a sequence of string    *)
(* pieces), "lit" (v the literal), "raw" (a str holding response text),    *)
(* "repr" (the str() of a Python value).                                   *)
(***************************************************************************)
EXTENDS Integers, Sequences, FiniteSets, TLC

\* ------------------------------------------------------------------ bounds
MaxPoems == 3
MaxVerses == 2
MaxLen == 5
MaxParts == 3

\* ------------------------------------------------------------------ lexemes
P(c) == [k |-> "p", s |-> c]
S(c) == [k |-> "str", s |-> c]
L(c) == [k |-> "lit", s |-> c]
W(c) == [k |-> "word", s |-> c]
NL == [k |-> "nl", s |-> "\n"]
TICK == [k |-> "tick", s |-> "bq"]

\* ------------------------------------------------------------------ values
Obj(f) == [t |-> "obj", v |-> f]
Arr(q) == [t |-> "arr", v |-> q]
Str(q) == [t |-> "str", v |-> q]
Lit(c) == [t |-> "lit", v |-> c]
Raw(x) == [t |-> "raw", v |-> x]
Repr(x) == [t |-> "repr", v |-> x]
EmptyMap == [x \in {} |-> Lit("null")]

\* The Python str a JSON string literal decodes to: "" is the empty str.
Decode(c) == IF c = "" THEN <<>> ELSE <<c>>

\* ------------------------------------------------------------------ str methods
\* text.startswith of a fence (three backticks)
StartsWithFence(x) ==
    /\ Len(x) >= 3
    /\ x[1] = TICK /\ x[2] = TICK /\ x[3] = TICK

\* text.split("\n"): the lines of x, at least one, without the separators
RECURSIVE SplitFrom(_, _, _)
SplitFrom(x, i, cur) ==
    IF i > Len(x) THEN <<cur>>
    ELSE IF x[i] = NL THEN <<cur>> \o SplitFrom(x, i + 1, <<>>)
    ELSE SplitFrom(x, i + 1, Append(cur, x[i]))

SplitLines(x) == SplitFrom(x, 1, <<>>)

\* sep.join(parts) for parts a sequence of sequences
RECURSIVE Join(_, _)
Join(parts, sep) ==
    IF Len(parts) = 0 THEN <<>>
    ELSE IF Len(parts) = 1 THEN parts[1]
    ELSE parts[1] \o sep \o Join(Tail(parts), sep)

\* ------------------------------------------------------------------ json.loads
RECURSIVE SkipWs(_)
SkipWs(x) == IF Len(x) > 0 /\ Head(x).k = "nl" THEN SkipWs(Tail(x)) ELSE x

Fail(msg) == [ok |-> FALSE, err |-> msg]
Got(val, rest) == [ok |-> TRUE, val |-> val, rest |-> rest]

RECURSIVE ParseValue(_), ParseMembers(_, _), ParseElements(_, _)

\* x starts at the first lexeme of a value
ParseValue(x) ==
    IF Len(x) = 0 THEN Fail("Expecting value")
    ELSE LET h == Head(x) IN
         CASE h.k = "str" -> Got(Str(Decode(h.s)), Tail(x))
           [] h.k = "lit" -> Got(Lit(h.s), Tail(x))
           [] h = P("{") ->
                LET y == SkipWs(Tail(x)) IN
                IF Len(y) > 0 /\ Head(y) = P("}") THEN Got(Obj(EmptyMap), Tail(y))
                ELSE ParseMembers(y, EmptyMap)
           [] h = P("[") ->
                LET y == SkipWs(Tail(x)) IN
                IF Len(y) > 0 /\ Head(y) = P("]") THEN Got(Arr(<<>>), Tail(y))
                ELSE ParseElements(y, <<>>)
           [] OTHER -> Fail("Expecting value")

\* x starts at a member's key; acc holds the members read so far (a later
\* duplicate key replaces an earlier one)
ParseMembers(x, acc) ==
    IF Len(x) = 0 \/ Head(x).k # "str"
    THEN Fail("Expecting property name enclosed in double quotes")
    ELSE LET key == Head(x).s
             y == SkipWs(Tail(x))
         IN IF Len(y) = 0 \/ Head(y) # P(":") THEN Fail("Expecting ':' delimiter")
            ELSE LET r == ParseValue(SkipWs(Tail(y))) IN
                 IF ~r.ok THEN r
                 ELSE LET acc2 == (key :> r.val) @@ acc
                          z == SkipWs(r.rest)
                      IN IF Len(z) > 0 /\ Head(z) = P("}") THEN Got(Obj(acc2), Tail(z))
                         ELSE IF Len(z) > 0 /\ Head(z) = P(",")
                              THEN ParseMembers(SkipWs(Tail(z)), acc2)
                         ELSE Fail("Expecting ',' delimiter")

\* x starts at an element; acc holds the elements read so far
ParseElements(x, acc) ==
    LET r == ParseValue(x) IN
    IF ~r.ok THEN r
    ELSE LET acc2 == Append(acc, r.val)
             z == SkipWs(r.rest)
         IN IF Len(z) > 0 /\ Head(z) = P("]") THEN Got(Arr(acc2), Tail(z))
            ELSE IF Len(z) > 0 /\ Head(z) = P(",")
                 THEN ParseElements(SkipWs(Tail(z)), acc2)
            ELSE Fail("Expecting ',' delimiter")

\* json.loads(text): one value, surrounded by whitespace only
JsonLoads(x) ==
    LET r == ParseValue(SkipWs(x)) IN
    IF ~r.ok THEN r
    ELSE IF Len(SkipWs(r.rest)) > 0 THEN Fail("Extra data")
    ELSE r

\* ------------------------------------------------------------------ json.dump
\* The keys of a dict in one fixed order
RECURSIVE KeySeq(_)
KeySeq(ks) ==
    IF ks = {} THEN <<>>
    ELSE LET k == CHOOSE x \in ks : TRUE
         IN <<k>> \o KeySeq(ks \ {k})

RECURSIVE Dumps(_), DumpMembers(_, _), DumpElements(_)

\* The text json.dump writes for a value, one member per line
Dumps(val) ==
    CASE val.t = "obj" ->
           IF DOMAIN val.v = {} THEN <<P("{"), P("}")>>
           ELSE <<P("{"), NL>> \o DumpMembers(val.v, KeySeq(DOMAIN val.v)) \o <<NL, P("}")>>
      [] val.t = "arr" -> <<P("[")>> \o DumpElements(val.v) \o <<P("]")>>
      [] val.t = "str" -> IF Len(val.v) = 0 THEN <<S("")>> ELSE <<S(val.v[1])>>
      [] OTHER -> <<L(val.v)>>

DumpMembers(f, ks) ==
    IF Len(ks) = 0 THEN <<>>
    ELSE <<S(ks[1]), P(":")>> \o Dumps(f[ks[1]])
         \o (IF Len(ks) = 1 THEN <<>> ELSE <<P(","), NL>> \o DumpMembers(f, Tail(ks)))

DumpElements(q) ==
    IF Len(q) = 0 THEN <<>>
    ELSE Dumps(q[1]) \o (IF Len(q) = 1 THEN <<>> ELSE <<P(",")>> \o DumpElements(Tail(q)))

\* ------------------------------------------------------------------ _call_agent
\* The loop over the lines of a response that starts with a fence: the lines
\* after the first fence line and before the next one
\* the loop with the tests of its first two branches swapped: it breaks at
\* the opening fence
RECURSIVE FenceLoopSwapped(_, _, _, _)
FenceLoopSwapped(lines, i, in_block, json_lines) ==
    IF i > Len(lines) THEN json_lines
    ELSE IF StartsWithFence(lines[i]) /\ in_block
         THEN FenceLoopSwapped(lines, i + 1, TRUE, json_lines)
    ELSE IF StartsWithFence(lines[i]) /\ ~in_block THEN json_lines
    ELSE IF in_block THEN FenceLoopSwapped(lines, i + 1, in_block, Append(json_lines, lines[i]))
    ELSE FenceLoopSwapped(lines, i + 1, in_block, json_lines)

RECURSIVE FenceLoop(_, _, _, _)
FenceLoop(lines, i, in_block, json_lines) ==
    IF i > Len(lines) THEN json_lines
    ELSE IF StartsWithFence(lines[i]) /\ ~in_block
         THEN FenceLoop(lines, i + 1, TRUE, json_lines)
    ELSE IF StartsWithFence(lines[i]) /\ in_block THEN json_lines
    ELSE IF in_block THEN FenceLoop(lines, i + 1, in_block, Append(json_lines, lines[i]))
    ELSE FenceLoop(lines, i + 1, in_block, json_lines)

\* The text handed to json.loads
StripFence(text) ==
    IF StartsWithFence(text)
    THEN Join(FenceLoop(SplitLines(text), 1, FALSE, <<>>), <<NL>>)
    ELSE text

\* The record the except JSONDecodeError branch returns
Degraded(text, err) == Obj(("raw_response" :> Raw(text)) @@ ("parse_error" :> Str(<<err>>)))

\* _call_agent on a completed model call whose response text is text
CallAgentText(text) ==
    LET stripped == StripFence(text)
        r == JsonLoads(stripped)
    IN IF r.ok THEN r.val ELSE Degraded(stripped, r.err)

\* ------------------------------------------------------------------ Python values
None == Lit("null")
IsDict(val) == val.t = "obj"
IsList(val) == val.t = "arr"
IsStr(val) == val.t \in {"str", "raw", "repr"}
Has(d, key) == key \in DOMAIN d.v
\* d.get(key, default) of a dict d
Get(d, key, default) == IF Has(d, key) THEN d.v[key] ELSE default

\* bool(val)
Truthy(val) ==
    CASE val.t = "obj" -> DOMAIN val.v # {}
      [] val.t = "arr" -> Len(val.v) > 0
      [] val.t \in {"str", "raw"} -> Len(val.v) > 0
      [] val.t = "repr" -> TRUE
      [] OTHER -> val.v \notin {"null", "false", "0"}

\* len(val) is defined
HasLen(val) == val.t \in {"obj", "arr", "str", "raw", "repr"}

\* "for v in val: v[k] for every k in keys" completes: val is a list of dicts
\* that have the keys, or an empty str or dict (nothing to iterate)
SubscriptLoopOk(val, keys) ==
    CASE val.t = "arr" -> \A i \in 1..Len(val.v) : IsDict(val.v[i]) /\ keys \subseteq DOMAIN val.v[i].v
      [] val.t \in {"obj", "str", "raw"} -> ~Truthy(val)
      [] OTHER -> FALSE

\* "for v in val: v.get(...)" completes: val is a list of dicts, or empty
GetLoopOk(val) == SubscriptLoopOk(val, {})

\* sep.join(val) completes: val iterates over str only
JoinOk(val) ==
    CASE val.t = "arr" -> \A i \in 1..Len(val.v) : IsStr(val.v[i])
      [] val.t \in {"obj", "str", "raw", "repr"} -> TRUE
      [] OTHER -> FALSE

\* ------------------------------------------------------------------ prompt builders
\* the enumerate(ghazal["verses"], 1) loop every builder starts with
VersesLoopOk(ghazal) ==
    /\ IsDict(ghazal) /\ Has(ghazal, "verses")
    /\ SubscriptLoopOk(ghazal.v["verses"], {"hemistich1", "hemistich2"})

\* the same with a read of ghazal["verses"][0] before the loop
AnalyzerPromptFirstVerse(ghazal) ==
    /\ VersesLoopOk(ghazal)
    /\ Len(ghazal.v["verses"].v) > 0

\* get_analyzer_prompt(ghazal) returns (raises nothing)
AnalyzerPromptOk(ghazal) == VersesLoopOk(ghazal)

\* one "if analysis.get(cat): [... a[k] ... ', '.join(a[j]) ...]" block
CategoryOk(analysis, cat, keys, joined) ==
    Truthy(Get(analysis, cat, None)) =>
        /\ SubscriptLoopOk(analysis.v[cat], keys \cup joined)
        /\ \A i \in 1..Len(analysis.v[cat].v) :
              \A j \in joined : JoinOk(analysis.v[cat].v[i].v[j])

\* get_translator_prompt(ghazal, analysis) returns
TranslatorPromptOk(ghazal, analysis) ==
    /\ VersesLoopOk(ghazal)
    /\ IsDict(analysis)
    /\ CategoryOk(analysis, "quranic_allusions", {"phrase", "reference"}, {})
    /\ CategoryOk(analysis, "sufi_terminology", {"term", "meaning_in_context"}, {})
    /\ CategoryOk(analysis, "ambiguities", {"phrase"}, {"possible_readings"})
    /\ CategoryOk(analysis, "wordplay", {"word"}, {"meanings"})

\* the same loop over literal_translation["verses"], which a record without
\* verses fails
LiteralLoopSubscript(literal_translation) ==
    /\ IsDict(literal_translation)
    /\ Has(literal_translation, "verses")
    /\ SubscriptLoopOk(literal_translation.v["verses"], {"verse_number", "hemistich1", "hemistich2"})

\* the loop over literal_translation.get("verses", []) of the Stylist and QA builders
LiteralLoopOk(literal_translation) ==
    /\ IsDict(literal_translation)
    /\ SubscriptLoopOk(Get(literal_translation, "verses", Arr(<<>>)),
                       {"verse_number", "hemistich1", "hemistich2"})

\* ", ".join([a[key] for a in analysis[cat]]) completes
JoinedFieldOk(analysis, cat, key) ==
    /\ SubscriptLoopOk(analysis.v[cat], {key})
    /\ \A i \in 1..Len(analysis.v[cat].v) : IsStr(analysis.v[cat].v[i].v[key])

\* get_stylist_prompt(ghazal, analysis, literal_translation) returns
StylistPromptOk(ghazal, analysis, literal_translation) ==
    /\ LiteralLoopOk(literal_translation)
    /\ VersesLoopOk(ghazal)
    /\ IsDict(analysis)
    /\ Truthy(Get(analysis, "ambiguities", None)) => JoinedFieldOk(analysis, "ambiguities", "phrase")
    /\ Truthy(Get(analysis, "key_images", None)) => JoinOk(analysis.v["key_images"])

\* get_qa_prompt(ghazal, analysis, literal_translation, refined_translation) returns
QaPromptOk(ghazal, analysis, literal_translation, refined_translation) ==
    /\ VersesLoopOk(ghazal)
    /\ LiteralLoopOk(literal_translation)
    /\ IsDict(refined_translation)
    /\ ~Truthy(Get(refined_translation, "full_text", Str(<<>>))) =>
          SubscriptLoopOk(Get(refined_translation, "verses", Arr(<<>>)),
                          {"verse_number", "line1", "line2"})
    /\ IsDict(analysis)
    /\ Truthy(Get(analysis, "quranic_allusions", None)) => HasLen(analysis.v["quranic_allusions"])
    /\ Truthy(Get(analysis, "sufi_terminology", None)) => JoinedFieldOk(analysis, "sufi_terminology", "term")
    /\ Truthy(Get(analysis, "ambiguities", None)) => HasLen(analysis.v["ambiguities"])

\* ------------------------------------------------------------------ derived fields
\* "key in rt" is defined (rt is a container) ...
InOk(rt) == rt.t \in {"obj", "arr", "str"}
\* ... and its value
In(key, rt) ==
    CASE rt.t = "obj" -> Has(rt, key)
      [] rt.t = "arr" -> \E i \in 1..Len(rt.v) : rt.v[i] = Str(<<key>>)
      [] OTHER -> \E i \in 1..Len(rt.v) : rt.v[i] = key

\* the lines list of the "verses" branch: line1 and line2 of every pair
RECURSIVE PairLines(_)
PairLines(q) ==
    IF Len(q) = 0 THEN <<>>
    ELSE <<Get(q[1], "line1", Str(<<>>)), Get(q[1], "line2", Str(<<>>))>> \o PairLines(Tail(q))

\* the str pieces of a list of str values
RECURSIVE PiecesOf(_)
PiecesOf(q) == IF Len(q) = 0 THEN <<>> ELSE <<q[1].v>> \o PiecesOf(Tail(q))

\* the refined record has a dict refined_translation without full_text but
\* with verses: the branch that rebuilds the text
VersesBranch(refined) ==
    /\ Has(refined, "refined_translation")
    /\ InOk(refined.v["refined_translation"])
    /\ ~In("full_text", refined.v["refined_translation"])
    /\ In("verses", refined.v["refined_translation"])

\* _extract_final_translation(refined) raises
ExtractFinalRaises(refined) ==
    /\ Has(refined, "refined_translation")
    /\ LET rt == refined.v["refined_translation"] IN
       \/ ~InOk(rt)
       \/ In("full_text", rt) /\ ~IsDict(rt)
       \/ /\ VersesBranch(refined)
          /\ \/ ~IsDict(rt)
             \/ ~GetLoopOk(rt.v["verses"])
             \/ IsList(rt.v["verses"]) /\ ~JoinOk(Arr(PairLines(rt.v["verses"].v)))

\* the derivation with its two branches swapped: the line pairs first
ExtractFinalPairsFirst(refined) ==
    IF Has(refined, "refined_translation") /\ In("verses", refined.v["refined_translation"])
    THEN LET vs == refined.v["refined_translation"].v["verses"] IN
         Str(Join(PiecesOf(IF IsList(vs) THEN PairLines(vs.v) ELSE <<>>), <<"\n">>))
    ELSE IF Has(refined, "refined_translation") /\ In("full_text", refined.v["refined_translation"])
    THEN refined.v["refined_translation"].v["full_text"]
    ELSE Repr(refined)

\* _extract_final_translation(refined), when it returns
ExtractFinal(refined) ==
    IF Has(refined, "refined_translation") /\ In("full_text", refined.v["refined_translation"])
    THEN refined.v["refined_translation"].v["full_text"]
    ELSE IF VersesBranch(refined)
    THEN LET vs == refined.v["refined_translation"].v["verses"] IN
         Str(Join(PiecesOf(IF IsList(vs) THEN PairLines(vs.v) ELSE <<>>), <<"\n">>))
    ELSE Repr(refined)

\* the text an f-string puts for a value
RECURSIVE LexemeText(_)
LexemeText(x) ==
    IF Len(x) = 0 THEN <<>>
    ELSE (IF Head(x) = NL THEN <<>> ELSE <<Head(x).s>>) \o LexemeText(Tail(x))

Fmt(val) ==
    CASE val.t = "str" -> val.v
      [] val.t = "lit" -> <<val.v>>
      [] val.t \in {"obj", "arr"} -> LexemeText(Dumps(val))
      [] OTHER -> <<"<str>">>

\* ", ".join(val) for a value JoinOk accepts
JoinComma(val) ==
    CASE val.t = "arr" -> Join(PiecesOf(val.v), <<", ">>)
      [] val.t = "obj" -> Join([i \in 1..Len(KeySeq(DOMAIN val.v)) |-> <<KeySeq(DOMAIN val.v)[i]>>], <<", ">>)
      [] OTHER -> Fmt(val)

\* ------------------------------------------------------------------ prompt texts
\* the items a "for x in val" loop visits when the builder returns
ItemsIn(val) == IF IsList(val) THEN val.v ELSE <<>>
\* f"{d.get(key, 'Unknown')}"
FmtOr(d, key, default) == Fmt(Get(d, key, Str(<<default>>)))
\* the truthy value of a category: the list the blocks loop over, else []
Category(analysis, cat) ==
    IF Truthy(Get(analysis, cat, None)) THEN ItemsIn(analysis.v[cat]) ELSE <<>>
\* str(len(val))
LenText(val) == ToString(IF val.t = "obj" THEN Cardinality(DOMAIN val.v) ELSE Len(val.v))

\* "Verse i:", "  hemistich1", "  hemistich2" of every verse, joined by newlines
VersesText(ghazal) ==
    LET vs == ItemsIn(ghazal.v["verses"]) IN
    Join([k \in 1..(3 * Len(vs)) |->
            IF k % 3 = 1 THEN <<"Verse ", ToString((k + 2) \div 3), ":">>
            ELSE IF k % 3 = 2 THEN <<"  ">> \o Fmt(vs[(k + 2) \div 3].v["hemistich1"])
            ELSE <<"  ">> \o Fmt(vs[(k + 2) \div 3].v["hemistich2"])],
         <<"\n">>)

\* "<lead>i<mid>hemistich1 / hemistich2" of every verse, joined by newlines
VersesOneLine(ghazal, lead, mid) ==
    LET vs == ItemsIn(ghazal.v["verses"]) IN
    Join([i \in 1..Len(vs) |->
            <<lead, ToString(i), mid>> \o Fmt(vs[i].v["hemistich1"]) \o <<" / ">>
            \o Fmt(vs[i].v["hemistich2"])],
         <<"\n">>)

\* get_analyzer_prompt(ghazal), when it returns
get_analyzer_prompt(ghazal) ==
    <<"Analyze the following ghazal from Rumi's Divan-e Kabir.\n\n**Ghazal Number**: ">>
    \o FmtOr(ghazal, "number", "Unknown")
    \o <<"\n**Meter**: ">> \o FmtOr(ghazal, "meter", "Unknown")
    \o <<"\n**Rhyme**: ">> \o FmtOr(ghazal, "rhyme", "Unknown")
    \o <<"\n\n**Persian Text**:\n">> \o VersesText(ghazal)
    \o <<"\n\nProvide a detailed analysis as JSON. Remember:\n- Identify ALL Quranic allusions and hadith references\n- Flag ambiguities that should be PRESERVED, not resolved\n- Note wordplay even if it cannot be translated\n- Be specific about Sufi terminology">>

\* one "- {a[k1]}: {a[k2]}" line; the second field is joined with ", " in
\* the blocks of ambiguities and wordplay
SummaryLine(a, k1, k2, joined) ==
    <<"- ">> \o Fmt(a.v[k1]) \o <<": ">> \o (IF joined THEN JoinComma(a.v[k2]) ELSE Fmt(a.v[k2]))

\* one block of analysis_summary: the heading, a newline, the lines
SummaryBlock(analysis, cat, head, k1, k2, joined) ==
    IF ~Truthy(Get(analysis, cat, None)) THEN <<>>
    ELSE << <<head>> \o Join([i \in 1..Len(Category(analysis, cat)) |->
                                SummaryLine(Category(analysis, cat)[i], k1, k2, joined)],
                             <<"\n">>) >>

\* analysis_summary of get_translator_prompt: the blocks in the order of the code
analysis_summary(analysis) ==
    SummaryBlock(analysis, "quranic_allusions", "**Quranic Allusions**:\n", "phrase", "reference", FALSE)
    \o SummaryBlock(analysis, "sufi_terminology", "**Sufi Terms**:\n", "term", "meaning_in_context", FALSE)
    \o SummaryBlock(analysis, "ambiguities", "**Ambiguities to Preserve**:\n", "phrase", "possible_readings", TRUE)
    \o SummaryBlock(analysis, "wordplay", "**Wordplay**:\n", "word", "meanings", TRUE)

\* the same with the fallback text left out
analysis_text_no_fallback(analysis) == Join(analysis_summary(analysis), <<"\n\n">>)

\* "\n\n".join(analysis_summary) if analysis_summary else "No special notes."
analysis_text(analysis) ==
    IF Len(analysis_summary(analysis)) > 0 THEN Join(analysis_summary(analysis), <<"\n\n">>)
    ELSE <<"No special notes.">>

\* get_translator_prompt(ghazal, analysis), when it returns
get_translator_prompt(ghazal, analysis) ==
    <<"Translate the following ghazal from Rumi's Divan-e Kabir.\n\n**Ghazal Number**: ">>
    \o FmtOr(ghazal, "number", "Unknown")
    \o <<"\n**Meter**: ">> \o FmtOr(ghazal, "meter", "Unknown")
    \o <<"\n\n**Persian Text**:\n">> \o VersesText(ghazal)
    \o <<"\n\n**Analysis Context**:\n">> \o analysis_text(analysis)
    \o <<"\n\nProduce an accurate, literal translation. Use the glossary consistently. Mark uncertainties with [?]. Preserve Islamic context (Hajj, Kaaba, prayer postures). Output as JSON.">>

\* literal_verses of get_stylist_prompt, joined by newlines
StylistLiteralText(literal_translation) ==
    LET vs == ItemsIn(Get(literal_translation, "verses", Arr(<<>>))) IN
    Join([k \in 1..(3 * Len(vs)) |->
            IF k % 3 = 1 THEN <<"Verse ">> \o Fmt(vs[(k + 2) \div 3].v["verse_number"]) \o <<":">>
            ELSE IF k % 3 = 2 THEN <<"  ">> \o Fmt(vs[(k + 2) \div 3].v["hemistich1"])
            ELSE <<"  ">> \o Fmt(vs[(k + 2) \div 3].v["hemistich2"])],
         <<"\n">>)

\* context of get_stylist_prompt: the key points joined by newlines
StylistContext(analysis) ==
    Join((IF Truthy(Get(analysis, "ambiguities", None))
          THEN << <<"**Ambiguities to preserve**: ">>
                  \o Join([i \in 1..Len(Category(analysis, "ambiguities")) |->
                             Fmt(Category(analysis, "ambiguities")[i].v["phrase"])], <<", ">>) >>
          ELSE <<>>)
         \o
         (IF Truthy(Get(analysis, "key_images", None))
          THEN << <<"**Key images**: ">> \o JoinComma(analysis.v["key_images"]) >>
          ELSE <<>>),
         <<"\n">>)

\* get_stylist_prompt(ghazal, analysis, literal_translation), when it returns
get_stylist_prompt(ghazal, analysis, literal_translation) ==
    <<"Refine this literal translation into poetry that sounds like Rumi.\n\n**Ghazal Number**: ">>
    \o FmtOr(ghazal, "number", "Unknown")
    \o <<"\n\n**Original Persian** (for reference):\n">> \o VersesOneLine(ghazal, "Verse ", ": ")
    \o <<"\n\n**Literal Translation**:\n">> \o StylistLiteralText(literal_translation)
    \o <<"\n\n">>
    \o (IF Len(StylistContext(analysis)) > 0
        THEN <<"**Context**:", "\n">> \o StylistContext(analysis) ELSE <<>>)
    \o <<"\n\nTransform this into Rumi's voice:\n- Direct address and urgency\n- Embodied, passionate language\n- Contemporary (not Victorian) English\n- Preserve ALL Islamic context (Hajj, Kaaba, prayer, etc.)\n- Don't soften or over-explain\n\nOutput as JSON with the refined translation.">>

\* literal_verses of get_qa_prompt, joined by newlines
QaLiteralText(literal_translation) ==
    LET vs == ItemsIn(Get(literal_translation, "verses", Arr(<<>>))) IN
    Join([i \in 1..Len(vs) |->
            Fmt(vs[i].v["verse_number"]) \o <<". ">> \o Fmt(vs[i].v["hemistich1"]) \o <<" / ">>
            \o Fmt(vs[i].v["hemistich2"])],
         <<"\n">>)

\* the pairs "verse_number. line1 / line2" joined by newlines
QaPairsText(refined_translation) ==
    LET vs == ItemsIn(Get(refined_translation, "verses", Arr(<<>>))) IN
    Join([i \in 1..Len(vs) |->
            Fmt(vs[i].v["verse_number"]) \o <<". ">> \o Fmt(vs[i].v["line1"]) \o <<" / ">>
            \o Fmt(vs[i].v["line2"])],
         <<"\n">>)

\* refined_text of get_qa_prompt: full_text, or the pairs when it is falsy
refined_text(refined_translation) ==
    IF Truthy(Get(refined_translation, "full_text", Str(<<>>)))
    THEN Fmt(refined_translation.v["full_text"])
    ELSE QaPairsText(refined_translation)

\* analysis_summary of get_qa_prompt
QaAnalysisSummary(analysis) ==
    LET points ==
          (IF Truthy(Get(analysis, "quranic_allusions", None))
           THEN << <<"Quranic allusions: ", LenText(analysis.v["quranic_allusions"]), " identified">> >>
           ELSE <<>>)
          \o
          (IF Truthy(Get(analysis, "sufi_terminology", None))
           THEN << <<"Sufi terms: ">>
                   \o Join([i \in 1..Len(Category(analysis, "sufi_terminology")) |->
                              Fmt(Category(analysis, "sufi_terminology")[i].v["term"])], <<", ">>) >>
           ELSE <<>>)
          \o
          (IF Truthy(Get(analysis, "ambiguities", None))
           THEN << <<"Ambiguities: ", LenText(analysis.v["ambiguities"]), " to preserve">> >>
           ELSE <<>>)
    IN IF Len(points) > 0 THEN Join(points, <<"\n">>) ELSE <<"Standard ghazal">>

\* get_qa_prompt(ghazal, analysis, literal_translation, refined_translation),
\* when it returns
get_qa_prompt(ghazal, analysis, literal_translation, refined_translation) ==
    <<"Review this translation for quality assurance.\n\n**Ghazal Number**: ">>
    \o FmtOr(ghazal, "number", "Unknown")
    \o <<"\n\n**Original Persian**:\n">> \o VersesOneLine(ghazal, "", ". ")
    \o <<"\n\n**Literal Translation**:\n">> \o QaLiteralText(literal_translation)
    \o <<"\n\n**Refined Translation** (to review):\n">> \o refined_text(refined_translation)
    \o <<"\n\n**Analysis Summary**:\n">> \o QaAnalysisSummary(analysis)
    \o <<"\n\nCheck for:\n1. Semantic fidelity (does English match Persian meaning?)\n2. No hallucinations (nothing added that wasn't there?)\n3. Islamic context preserved (Hajj, Kaaba, prayer intact?)\n4. Terminology consistent with glossary?\n5. Tone sounds like Rumi (urgent, embodied, not academic)?\n6. Ambiguities preserved (not over-explained)?\n\nOutput your QA assessment as JSON.">>

\* the bullet of one item of a category
NoteLine(cat, a) ==
    CASE cat = "quranic_allusions" ->
           <<"- ">> \o Fmt(Get(a, "reference", Str(<<"?">>))) \o <<": ">>
           \o Fmt(Get(a, "meaning", Get(a, "rumi_usage", Str(<<>>))))
      [] cat = "sufi_terminology" ->
           <<"- *">> \o Fmt(Get(a, "term", Str(<<>>))) \o <<"* (">>
           \o Fmt(Get(a, "persian", Str(<<>>))) \o <<"): ">>
           \o Fmt(Get(a, "meaning_in_context", Str(<<>>)))
      [] cat = "ambiguities" ->
           <<"- \"">> \o Fmt(Get(a, "phrase", Str(<<>>))) \o <<"\": ">>
           \o JoinComma(Get(a, "possible_readings", Arr(<<>>)))
      [] cat = "wordplay" ->
           <<"- *">> \o Fmt(Get(a, "word", Str(<<>>))) \o <<"*: ">>
           \o JoinComma(Get(a, "meanings", Arr(<<>>)))
      [] OTHER ->
           <<"- Verse ">> \o Fmt(Get(a, "verse", Str(<<"?">>))) \o <<": ">>
           \o Fmt(Get(a, "note", Str(<<>>)))

\* the list field an item of a category joins with ", " (none: "")
JoinedKey(cat) ==
    CASE cat = "ambiguities" -> "possible_readings"
      [] cat = "wordplay" -> "meanings"
      [] OTHER -> ""

\* the same blocks with the first and the third exchanged
NoteCategoriesSwapped ==
    << [cat |-> "ambiguities", src |-> "analysis", head |-> "**Deliberate Ambiguities:**"],
       [cat |-> "sufi_terminology", src |-> "analysis", head |-> "\n**Sufi Terminology:**"],
       [cat |-> "quranic_allusions", src |-> "analysis", head |-> "\n**Quranic Allusions:**"],
       [cat |-> "wordplay", src |-> "analysis", head |-> "\n**Wordplay (Lost in Translation):**"],
       [cat |-> "translation_notes", src |-> "literal", head |-> "\n**Translation Notes:**"] >>

\* the headings, in the order _compile_scholarly_notes appends them
NoteCategories ==
    << [cat |-> "quranic_allusions", src |-> "analysis", head |-> "**Quranic Allusions:**"],
       [cat |-> "sufi_terminology", src |-> "analysis", head |-> "\n**Sufi Terminology:**"],
       [cat |-> "ambiguities", src |-> "analysis", head |-> "\n**Deliberate Ambiguities:**"],
       [cat |-> "wordplay", src |-> "analysis", head |-> "\n**Wordplay (Lost in Translation):**"],
       [cat |-> "translation_notes", src |-> "literal", head |-> "\n**Translation Notes:**"] >>

\* one "if d.get(cat): heading, bullets" block raises
NoteBlockRaises(d, cat) ==
    /\ Truthy(Get(d, cat, None))
    /\ \/ ~GetLoopOk(d.v[cat])
       \/ /\ JoinedKey(cat) # ""
          /\ \E i \in 1..Len(d.v[cat].v) :
                ~JoinOk(Get(d.v[cat].v[i], JoinedKey(cat), Arr(<<>>)))

\* the same without the "if d.get(cat)" around the heading
NoteBlockAlways(d, c) ==
    << <<c.head>> >> \o
    (IF IsDict(d) /\ Has(d, c.cat) /\ IsList(d.v[c.cat])
     THEN [i \in 1..Len(d.v[c.cat].v) |-> NoteLine(c.cat, d.v[c.cat].v[i])]
     ELSE <<>>)

\* the lines one block appends to notes
NoteBlock(d, c) ==
    IF ~Truthy(Get(d, c.cat, None)) THEN <<>>
    ELSE << <<c.head>> >> \o
         (IF IsList(d.v[c.cat])
          THEN [i \in 1..Len(d.v[c.cat].v) |-> NoteLine(c.cat, d.v[c.cat].v[i])]
          ELSE <<>>)

\* _compile_scholarly_notes(analysis, literal) raises
CompileNotesRaises(analysis, literal) ==
    \E i \in 1..Len(NoteCategories) :
        NoteBlockRaises(IF NoteCategories[i].src = "analysis" THEN analysis ELSE literal,
                        NoteCategories[i].cat)

RECURSIVE NoteBlocks(_, _, _)
NoteBlocks(analysis, literal, i) ==
    IF i > Len(NoteCategories) THEN <<>>
    ELSE NoteBlock(IF NoteCategories[i].src = "analysis" THEN analysis ELSE literal,
                   NoteCategories[i])
         \o NoteBlocks(analysis, literal, i + 1)

\* _compile_scholarly_notes(analysis, literal), when it returns
CompileNotes(analysis, literal) == Str(Join(NoteBlocks(analysis, literal, 1), <<"\n">>))

\* _print_summary(result) raises: confidence.upper(), the loop over overall_issues
PrintSummaryRaises(confidence, qa) ==
    \/ ~IsStr(confidence)
    \/ Truthy(Get(qa, "overall_issues", None)) /\ ~HasLen(qa.v["overall_issues"])

\* ------------------------------------------------------------------ inputs
\* a source poem of the input file: number i, n verse pairs
Verse(j) == Obj(("hemistich1" :> Str(<<"h1-" \o ToString(j)>>)) @@ ("hemistich2" :> Str(<<"h2-" \o ToString(j)>>)))
Ghazal(i, n) == Obj(("number" :> Lit(ToString(i))) @@ ("verses" :> Arr([j \in 1..n |-> Verse(j)])))
\* a poem whose only verse lacks its second half
BrokenGhazal(i) ==
    Obj(("number" :> Lit(ToString(i))) @@ ("verses" :> Arr(<<Obj("hemistich1" :> Str(<<"h1">>))>>)))

\* a response wrapped in a fenced code block, with and without a language tag
FenceBare(text) == <<TICK, TICK, TICK, NL>> \o text \o <<NL, TICK, TICK, TICK>>
Fence(text) == <<TICK, TICK, TICK, W("json"), NL>> \o text \o <<NL, TICK, TICK, TICK>>

Garbage == <<W("Sorry"), NL, W("I"), W("cannot")>>

\* stage outputs in the structure the system prompts ask for
AnalysisFull ==
    Obj(("quranic_allusions" :> Arr(<<Obj(("phrase" :> Str(<<"light">>)) @@ ("reference" :> Str(<<"Quran 24:35">>))
                                         @@ ("meaning" :> Str(<<"divine light">>)))>>))
        @@ ("sufi_terminology" :> Arr(<<>>))
        @@ ("ambiguities" :> Arr(<<Obj(("phrase" :> Str(<<"beloved">>))
                                       @@ ("possible_readings" :> Arr(<<Str(<<"God">>), Str(<<"Shams">>)>>)))>>))
        @@ ("key_images" :> Arr(<<Str(<<"wine">>)>>)))
AnalysisPlain == Obj("meter" :> Str(<<"ramal">>))
\* an analysis with two terms and one wordplay entry, without the other categories
AnalysisTerms ==
    Obj(("sufi_terminology" :> Arr(<<Obj(("term" :> Str(<<"fana">>)) @@ ("persian" :> Str(<<"fna">>))
                                         @@ ("meaning_in_context" :> Str(<<"annihilation">>))),
                                     Obj(("term" :> Str(<<"saqi">>))
                                         @@ ("meaning_in_context" :> Str(<<"cupbearer">>)))>>))
        @@ ("wordplay" :> Arr(<<Obj(("word" :> Str(<<"ney">>))
                                    @@ ("meanings" :> Arr(<<Str(<<"reed">>), Str(<<"no">>)>>)))>>)))
AnalysisBadItem == Obj("quranic_allusions" :> Arr(<<Obj("reference" :> Str(<<"Quran 24:35">>))>>))

LiteralVerse(j) ==
    Obj(("verse_number" :> Lit(ToString(j))) @@ ("hemistich1" :> Str(<<"e1-" \o ToString(j)>>))
        @@ ("hemistich2" :> Str(<<"e2-" \o ToString(j)>>)))
LiteralVerses(n) == Obj("verses" :> Arr([j \in 1..n |-> LiteralVerse(j)]))
LiteralGood(n) ==
    Obj(("literal_translation" :> LiteralVerses(n))
        @@ ("translation_notes" :> Arr(<<Obj(("verse" :> Lit("1")) @@ ("note" :> Str(<<"idiom">>)))>>)))
LiteralNoNumber == Obj("literal_translation" :> Obj("verses" :> Arr(<<Obj("hemistich1" :> Str(<<"e1">>))>>)))

RefinedPair(j) ==
    Obj(("verse_number" :> Lit(ToString(j))) @@ ("line1" :> Str(<<"A" \o ToString(j)>>))
        @@ ("line2" :> Str(<<"B" \o ToString(j)>>)))
RefinedPairs(n) == Arr([j \in 1..n |-> RefinedPair(j)])
RefinedBoth(n) ==
    Obj("refined_translation" :> Obj(("verses" :> RefinedPairs(n)) @@ ("full_text" :> Str(<<"Come, come!">>))))
RefinedEmptyText(n) ==
    Obj("refined_translation" :> Obj(("verses" :> RefinedPairs(n)) @@ ("full_text" :> Str(<<>>))))
RefinedNoText(n) == Obj("refined_translation" :> Obj("verses" :> RefinedPairs(n)))
RefinedFlat == Obj("full_text" :> Str(<<"Come, come!">>))
\* the inner record of RefinedNoText
RefinedPairsOnly(n) == Obj("verses" :> RefinedPairs(n))

QaWith(conf, flag) == Obj(("confidence" :> conf) @@ ("flags_for_human_review" :> flag) @@ ("overall_issues" :> Arr(<<>>)))
QaHigh == QaWith(Str(<<"high">>), Lit("false"))
QaLow == Obj("confidence" :> Str(<<"low">>))
QaLowUnflagged == QaWith(Str(<<"low">>), Lit("false"))
QaEmpty == Obj(EmptyMap)
QaNumber == Obj("confidence" :> Lit("1"))
\* the rating spelt as the scoring section of the system prompt spells it
QaUpper == QaWith(Str(<<"HIGH">>), Lit("false"))

Resp(cls, text) == [cls |-> cls, text |-> text]
Transport == Resp("transport", <<>>)
Agents == <<"Analyzer", "Translator", "Stylist", "QA">>

\* what the model may answer to the call of an agent for a poem of n verse
\* pairs: cls "good" is the structure asked for, "misaligned" the same with
\* one verse too many, "partial" an object without the expected fields,
\* "badtype" an object with a field of the wrong type, "nonobject" JSON that
\* is no object, "unparseable" no JSON, "transport" a call that fails
RichPool(agent, n) ==
    {Transport, Resp("unparseable", Garbage), Resp("unparseable", Fence(Garbage)),
     Resp("nonobject", <<P("["), P("]")>>)}
    \cup
    CASE agent = "Analyzer" ->
           {Resp("good", Fence(Dumps(AnalysisFull))), Resp("good", Dumps(AnalysisPlain)),
            Resp("good", Dumps(AnalysisTerms)),
            Resp("partial", Dumps(AnalysisBadItem))}
      [] agent = "Translator" ->
           {Resp("good", Dumps(LiteralGood(n))), Resp("misaligned", Dumps(LiteralGood(n + 1))),
            Resp("partial", Dumps(LiteralVerses(n))), Resp("partial", Dumps(LiteralNoNumber)),
            Resp("nonobject", <<S("a translation")>>)}
      [] agent = "Stylist" ->
           {Resp("good", Dumps(RefinedBoth(n))), Resp("good", Fence(Dumps(RefinedEmptyText(n)))),
            Resp("partial", Dumps(RefinedNoText(n))), Resp("partial", Dumps(RefinedFlat)),
            Resp("misaligned", Dumps(RefinedNoText(n + 1)))}
      [] OTHER ->
           {Resp("good", Dumps(QaHigh)), Resp("good", Dumps(QaLowUnflagged)),
            Resp("partial", Dumps(QaLow)), Resp("partial", Dumps(QaEmpty)),
            Resp("badtype", Dumps(QaNumber)), Resp("badtype", Dumps(QaUpper))}

LeanPool(agent, n) ==
    {Transport}
    \cup
    CASE agent = "Analyzer" -> {Resp("good", Dumps(AnalysisFull)), Resp("unparseable", Garbage)}
      [] agent = "Translator" -> {Resp("good", Dumps(LiteralGood(n)))}
      [] agent = "Stylist" -> {Resp("good", Dumps(RefinedBoth(n)))}
      [] OTHER -> {Resp("good", Dumps(QaHigh)), Resp("partial", Dumps(QaLow))}

\* every call either fails or returns what the system prompt asks for
BarePool(agent, n) ==
    {Transport}
    \cup
    CASE agent = "Analyzer" -> {Resp("good", Dumps(AnalysisPlain))}
      [] agent = "Translator" -> {Resp("good", Dumps(LiteralVerses(n)))}
      [] agent = "Stylist" -> {Resp("good", Dumps(RefinedFlat))}
      [] OTHER -> {Resp("good", Dumps(QaLow))}

\* answers in both shapes of a hand-off: the record nested under its field
\* name as the system prompt asks, and the inner record alone
PairPool(agent, n) ==
    CASE agent = "Analyzer" -> {Resp("good", Dumps(AnalysisFull)), Resp("good", Dumps(AnalysisTerms)),
                                Resp("unparseable", Garbage)}
      [] agent = "Translator" -> {Resp("good", Dumps(LiteralGood(n))), Resp("partial", Dumps(LiteralVerses(n)))}
      [] agent = "Stylist" -> {Resp("good", Dumps(RefinedNoText(n))), Resp("partial", Dumps(RefinedPairsOnly(n)))}
      [] OTHER -> {Transport, Resp("good", Dumps(QaHigh))}

\* ------------------------------------------------------------------ state
VARIABLES
    data,       \* data["ghazals"] of the input file
    limit,      \* the limit argument: [given, n]
    pool,       \* which answers the model may give: "rich", "lean", "bare" or "pair"
    idx,        \* position of the for loop of translate_corpus in ghazals
    pc,         \* the next step: "Main", "Corpus", an agent, "Build", "Save",
                \* "Done", "Rendered" or "Exited"; in a fetch run the function
                \* under way, then "Fetched"
    analysis, literal, refined, qa,   \* the locals of translate_ghazal
    results,    \* the results list of translate_corpus
    errors,     \* the "Error translating ghazal" lines printed so far
    output,     \* the output file: [written, translations]
    calls,      \* the model calls made so far, in order
    probe,      \* direct calls of _call_agent on one text: as it is, in a fence
                \* with a language tag, in a fence without one
    args,       \* the parsed command line: [api_key]
    environ,    \* os.environ["ANTHROPIC_API_KEY"], None when unset
    exit,       \* how the process ended: [exited, status, message]
    document,   \* what generate_document.py made of the output file
    tally,      \* the counts translate_corpus prints after saving
    prompts,    \* direct calls of the four builders: the arguments given, what
                \* the first and the second call returned
    site,       \* the Ganjoor server: [up, poems], the poems in index order
    request     \* the range a fetch run was asked for: [start, count]

vars == <<data, limit, pool, idx, pc, analysis, literal, refined, qa,
          results, errors, output, calls, probe, args, environ, exit, document,
          prompts, tally, site, request>>

NoLimit == [given |-> FALSE, n |-> 0]
NoProbe == [text |-> <<>>, plain |-> None, fenced |-> None, bare |-> None]
NoFile == [written |-> 0, source |-> "", edition |-> "", translation_method |-> "",
           translated_at |-> "", pipeline_version |-> "", translations |-> <<>>]
NoExit == [exited |-> FALSE, status |-> 0, message |-> ""]
NotRun == [raised |-> "not run", english |-> <<>>]
NoDocument == [markdown |-> NotRun, html |-> NotRun]
NoTally == [printed |-> FALSE, high |-> 0, medium |-> 0, low |-> 0, review |-> 0]
NoPrompts == [given |-> <<>>, first |-> <<>>, second |-> <<>>]
NoRequest == [start |-> 1, count |-> 0]
NoSite == [up |-> TRUE, poems |-> <<>>]

Min(a, b) == IF a < b THEN a ELSE b

\* data["ghazals"][:limit] if limit else data["ghazals"]
ghazals ==
    IF limit.given /\ limit.n # 0 THEN SubSeq(data, 1, Min(limit.n, Len(data))) ELSE data

ghazal == ghazals[idx]
\* the number of verse pairs of the current poem (0 when it has no list)
VerseCount(g) == IF Has(g, "verses") /\ IsList(g.v["verses"]) THEN Len(g.v["verses"].v) ELSE 0

Pool(agent) == IF pool = "rich" THEN RichPool(agent, VerseCount(ghazal))
               ELSE IF pool = "lean" THEN LeanPool(agent, VerseCount(ghazal))
               ELSE IF pool = "pair" THEN PairPool(agent, VerseCount(ghazal))
               ELSE BarePool(agent, VerseCount(ghazal))

\* the step after the current poem has ended
AfterPoem == IF idx + 1 <= Len(ghazals) THEN "Analyzer" ELSE "Save"

ClearLocals == /\ analysis' = None /\ literal' = None /\ refined' = None /\ qa' = None

\* the handler starting the loop over from the first poem
RaiseRewind(e) ==
    /\ errors' = Append(errors, [number |-> Get(ghazal, "number", Str(<<"?">>)), error |-> e])
    /\ idx' = 1
    /\ pc' = "Analyzer"
    /\ ClearLocals
    /\ UNCHANGED <<results, output>>

\* the handler with break in place of continue: the loop is left
RaiseBreak(e) ==
    /\ errors' = Append(errors, [number |-> Get(ghazal, "number", Str(<<"?">>)), error |-> e])
    /\ idx' = idx + 1
    /\ pc' = "Save"
    /\ ClearLocals
    /\ UNCHANGED <<results, output>>

\* except Exception as e of translate_corpus: print the poem and the error,
\* continue with the next poem
Raise(e) ==
    /\ errors' = Append(errors, [number |-> Get(ghazal, "number", Str(<<"?">>)), error |-> e])
    /\ idx' = idx + 1
    /\ pc' = AfterPoem
    /\ ClearLocals
    /\ UNCHANGED <<results, output>>

Call(agent, user_prompt, r, out, rec) ==
    [i |-> idx, agent |-> agent, prompt |-> user_prompt, cls |-> r.cls, out |-> out, rec |-> rec]
OutcomeOf(rec) == IF IsDict(rec) /\ Has(rec, "parse_error") /\ rec.v["parse_error"].t = "str"
                     /\ Has(rec, "raw_response") /\ rec.v["raw_response"].t = "raw"
                  THEN "degraded" ELSE "record"

\* self._call_agent(system_prompt, user_prompt, agent): the model is called
\* with the prompt; a failed call raises out of translate_ghazal, a
\* completed one returns the parsed or the degraded record into the local
\* named by the agent
CallAgent(agent, user_prompt, next) ==
    \E r \in Pool(agent) :
        IF r.cls = "transport"
        THEN /\ calls' = Append(calls, Call(agent, user_prompt, r, "raised", None))
             /\ Raise("APIError")
        ELSE LET rec == CallAgentText(r.text) IN
             /\ calls' = Append(calls, Call(agent, user_prompt, r, OutcomeOf(rec), rec))
             /\ analysis' = IF agent = "Analyzer" THEN rec ELSE analysis
             /\ literal' = IF agent = "Translator" THEN rec ELSE literal
             /\ refined' = IF agent = "Stylist" THEN rec ELSE refined
             /\ qa' = IF agent = "QA" THEN rec ELSE qa
             /\ pc' = next
             /\ UNCHANGED <<idx, results, errors, output>>

\* the literal record handed on as it came
literal_not_unwrapped == literal

\* literal.get("literal_translation", literal)
literal_for_stylist == Get(literal, "literal_translation", literal)
\* refined.get("refined_translation", refined)
refined_for_qa == Get(refined, "refined_translation", refined)

\* s.strip() of a text kept as its characters
RECURSIVE LStrip(_)
LStrip(x) == IF Len(x) > 0 /\ Head(x) = " " THEN LStrip(Tail(x)) ELSE x
RECURSIVE RStrip(_)
RStrip(x) == IF Len(x) > 0 /\ x[Len(x)] = " " THEN RStrip(SubSeq(x, 1, Len(x) - 1)) ELSE x
Strip(val) == Str(RStrip(LStrip(val.v)))

\* os.environ after "if args.api_key: os.environ[...] = args.api_key"
EnvironAfterArgs == IF Truthy(args.api_key) THEN args.api_key ELSE environ

MissingKeyMessage == "Error: ANTHROPIC_API_KEY is not set or is empty."

\* the same check without .strip()
MainNoStrip ==
    /\ pc = "Main"
    /\ environ' = EnvironAfterArgs
    /\ IF ~Truthy(IF EnvironAfterArgs = None THEN Str(<<>>) ELSE EnvironAfterArgs)
       THEN /\ exit' = [exited |-> TRUE, status |-> 1, message |-> MissingKeyMessage]
            /\ pc' = "Exited"
       ELSE /\ pc' = "Corpus"
            /\ UNCHANGED exit
    /\ UNCHANGED <<data, limit, pool, idx, analysis, literal, refined, qa,
                   results, errors, output, calls, probe, args, document, prompts, tally, site, request>>

\* the script: the key of --api-key goes into the environment; a missing or
\* blank key prints the message and exits with status 1, otherwise
\* translate_corpus is called
Main ==
    /\ pc = "Main"
    /\ environ' = EnvironAfterArgs
    /\ IF ~Truthy(Strip(IF EnvironAfterArgs = None THEN Str(<<>>) ELSE EnvironAfterArgs))
       THEN /\ exit' = [exited |-> TRUE, status |-> 1, message |-> MissingKeyMessage]
            /\ pc' = "Exited"
       ELSE /\ pc' = "Corpus"
            /\ UNCHANGED exit
    /\ UNCHANGED <<data, limit, pool, idx, analysis, literal, refined, qa,
                   results, errors, output, calls, probe, args, document, prompts, tally, site, request>>

\* translate_corpus up to its loop: the input is read, TranslationPipeline()
\* takes the key of the environment and raises ValueError without one
NewPipeline ==
    /\ pc = "Corpus"
    /\ IF ~Truthy(environ)
       THEN /\ exit' = [exited |-> TRUE, status |-> 1,
                        message |-> "ValueError: ANTHROPIC_API_KEY required"]
            /\ pc' = "Exited"
       ELSE /\ pc' = (IF Len(ghazals) >= 1 THEN "Analyzer" ELSE "Save")
            /\ UNCHANGED exit
    /\ UNCHANGED <<data, limit, pool, idx, analysis, literal, refined, qa,
                   results, errors, output, calls, probe, args, environ, document, prompts, tally, site, request>>

\* Pass 1
RunAnalyzer ==
    /\ pc = "Analyzer"
    /\ IF ~AnalyzerPromptOk(ghazal)
       THEN Raise("KeyError") /\ UNCHANGED calls
       ELSE CallAgent("Analyzer", get_analyzer_prompt(ghazal), "Translator")
    /\ UNCHANGED <<data, limit, pool, probe, args, environ, exit, document, prompts, tally, site, request>>

\* Pass 2
RunTranslator ==
    /\ pc = "Translator"
    /\ IF ~TranslatorPromptOk(ghazal, analysis)
       THEN Raise("AttributeError") /\ UNCHANGED calls
       ELSE CallAgent("Translator", get_translator_prompt(ghazal, analysis), "Stylist")
    /\ UNCHANGED <<data, limit, pool, probe, args, environ, exit, document, prompts, tally, site, request>>

\* Pass 3 called again after it has returned
RunStylistAgain ==
    /\ pc = "Stylist"
    /\ IF ~IsDict(literal) \/ ~StylistPromptOk(ghazal, analysis, literal_for_stylist)
       THEN Raise("AttributeError") /\ UNCHANGED calls
       ELSE CallAgent("Stylist", get_stylist_prompt(ghazal, analysis, literal_for_stylist), "Stylist")
    /\ UNCHANGED <<data, limit, pool, probe, args, environ, exit, document, prompts, tally, site, request>>

\* Pass 3
RunStylist ==
    /\ pc = "Stylist"
    /\ IF ~IsDict(literal) \/ ~StylistPromptOk(ghazal, analysis, literal_for_stylist)
       THEN Raise("AttributeError") /\ UNCHANGED calls
       ELSE CallAgent("Stylist", get_stylist_prompt(ghazal, analysis, literal_for_stylist), "QA")
    /\ UNCHANGED <<data, limit, pool, probe, args, environ, exit, document, prompts, tally, site, request>>

\* Pass 4
RunQA ==
    /\ pc = "QA"
    /\ IF \/ ~IsDict(refined)
          \/ ~QaPromptOk(ghazal, analysis, literal_for_stylist, refined_for_qa)
       THEN Raise("AttributeError") /\ UNCHANGED calls
       ELSE CallAgent("QA", get_qa_prompt(ghazal, analysis, literal_for_stylist, refined_for_qa), "Build")
    /\ UNCHANGED <<data, limit, pool, probe, args, environ, exit, document, prompts, tally, site, request>>

\* qa.get("confidence", "medium")
Confidence(q) == Get(q, "confidence", Str(<<"medium">>))
\* the same with False as the default in place of confidence == "low"
NeedsReviewFlagOnly(q) == Get(q, "flags_for_human_review", Lit("false"))

\* qa.get("flags_for_human_review", confidence == "low")
NeedsReview(q) ==
    Get(q, "flags_for_human_review",
        IF Confidence(q) = Str(<<"low">>) THEN Lit("true") ELSE Lit("false"))

\* the same holding the unwrapped hand-offs in place of the stage records
TranslationResultUnwrapped(g, a, l, r, q) ==
    [ghazal_id |-> Str(<<"F-">> \o Fmt(Get(g, "number", Str(<<"?">>)))),
     ghazal_number |-> Get(g, "number", Str(<<"?">>)),
     persian_text |-> g.v["verses"],
     analysis |-> a,
     literal_translation |-> Get(l, "literal_translation", l),
     refined_translation |-> Get(r, "refined_translation", r),
     qa_result |-> q,
     final_translation |-> ExtractFinal(r),
     scholarly_notes |-> CompileNotes(a, l),
     confidence |-> Confidence(q),
     needs_review |-> NeedsReview(q),
     metadata |-> [model |-> "claude-sonnet-4-20250514", pipeline_version |-> "1.1"]]

\* TranslationResult(...).to_dict()
TranslationResult(g, a, l, r, q) ==
    [ghazal_id |-> Str(<<"F-">> \o Fmt(Get(g, "number", Str(<<"?">>)))),
     ghazal_number |-> Get(g, "number", Str(<<"?">>)),
     persian_text |-> g.v["verses"],
     analysis |-> a,
     literal_translation |-> l,
     refined_translation |-> r,
     qa_result |-> q,
     final_translation |-> ExtractFinal(r),
     scholarly_notes |-> CompileNotes(a, l),
     confidence |-> Confidence(q),
     needs_review |-> NeedsReview(q),
     metadata |-> [model |-> "claude-sonnet-4-20250514", pipeline_version |-> "1.1"]]

\* the same with results.insert(0, ...) in place of append
BuildInsertFirst ==
    /\ pc = "Build"
    /\ IF \/ ExtractFinalRaises(refined)
          \/ CompileNotesRaises(analysis, literal)
          \/ ~IsDict(qa)
          \/ PrintSummaryRaises(Confidence(qa), qa)
       THEN Raise("AttributeError")
       ELSE /\ results' = <<TranslationResult(ghazal, analysis, literal, refined, qa)>> \o results
            /\ idx' = idx + 1
            /\ pc' = AfterPoem
            /\ ClearLocals
            /\ UNCHANGED <<errors, output>>
    /\ UNCHANGED <<data, limit, pool, calls, probe, args, environ, exit, document, prompts, tally, site, request>>

\* the same writing the output document after every poem
BuildWriteThrough ==
    /\ pc = "Build"
    /\ IF \/ ExtractFinalRaises(refined)
          \/ CompileNotesRaises(analysis, literal)
          \/ ~IsDict(qa)
          \/ PrintSummaryRaises(Confidence(qa), qa)
       THEN Raise("AttributeError") /\ UNCHANGED output
       ELSE /\ results' = Append(results, TranslationResult(ghazal, analysis, literal, refined, qa))
            /\ output' = [output EXCEPT !.written = @ + 1, !.translations = results']
            /\ idx' = idx + 1
            /\ pc' = AfterPoem
            /\ ClearLocals
            /\ UNCHANGED errors
    /\ UNCHANGED <<data, limit, pool, calls, probe, args, environ, exit, document, prompts, tally, site, request>>

\* the rest of translate_ghazal and results.append(result.to_dict())
Build ==
    /\ pc = "Build"
    /\ IF \/ ExtractFinalRaises(refined)
          \/ CompileNotesRaises(analysis, literal)
          \/ ~IsDict(qa)
          \/ PrintSummaryRaises(Confidence(qa), qa)
       THEN Raise("AttributeError")
       ELSE /\ results' = Append(results, TranslationResult(ghazal, analysis, literal, refined, qa))
            /\ idx' = idx + 1
            /\ pc' = AfterPoem
            /\ ClearLocals
            /\ UNCHANGED <<errors, output>>
    /\ UNCHANGED <<data, limit, pool, calls, probe, args, environ, exit, document, prompts, tally, site, request>>

\* the summary stats: the results with confidence "high", "medium", "low",
\* and those whose needs_review is truthy
Tally(res) ==
    [printed |-> TRUE,
     high |-> Cardinality({j \in 1..Len(res) : res[j].confidence = Str(<<"high">>)}),
     medium |-> Cardinality({j \in 1..Len(res) : res[j].confidence = Str(<<"medium">>)}),
     low |-> Cardinality({j \in 1..Len(res) : res[j].confidence = Str(<<"low">>)}),
     review |-> Cardinality({j \in 1..Len(res) : Truthy(res[j].needs_review)})]

\* the output document is written after the loop (the input file is one
\* without source and edition), the tally is printed and the script ends
Save ==
    /\ pc = "Save"
    /\ output' = [written |-> output.written + 1,
                  source |-> "Divan-e Kabir",
                  edition |-> "Unknown",
                  translation_method |-> "Multi-pass LLM (Analyzer -> Translator -> Stylist -> QA)",
                  translated_at |-> "now",
                  pipeline_version |-> "1.1",
                  translations |-> results]
    /\ tally' = Tally(results)
    /\ exit' = [exited |-> TRUE, status |-> 0, message |-> ""]
    /\ pc' = "Done"
    /\ UNCHANGED <<data, limit, pool, idx, analysis, literal, refined, qa,
                   results, errors, calls, probe, args, environ, document, prompts, site, request>>

\* ------------------------------------------------------------------ generate_document.py
\* the fields both renderers subscript in the file and in each translation
MetadataRead == {"source", "edition", "translation_method", "translations"}
RecordRead == {"number", "meter", "rhyme", "persian_text", "english_translation", "scholarly_notes"}

\* the reads of one translation by generate_markdown complete
MarkdownRecordOk(t) ==
    /\ RecordRead \subseteq DOMAIN t
    /\ SubscriptLoopOk(t.persian_text, {"hemistich1", "hemistich2"})
    /\ IsStr(t.english_translation)
    /\ Truthy(t.scholarly_notes) => IsStr(t.scholarly_notes)

\* the reads of one translation by generate_html complete
HtmlRecordOk(t) ==
    /\ RecordRead \subseteq DOMAIN t
    /\ SubscriptLoopOk(t.persian_text, {"hemistich1", "hemistich2"})
    /\ IsStr(t.english_translation)
    /\ IsStr(t.scholarly_notes)

\* what a renderer makes of the file: the error it raises, or the English
\* text it puts under each poem
Rendered(doc, ok) ==
    IF ~(MetadataRead \subseteq DOMAIN doc) THEN [raised |-> "KeyError", english |-> <<>>]
    ELSE IF \E j \in 1..Len(doc.translations) : ~(RecordRead \subseteq DOMAIN doc.translations[j])
    THEN [raised |-> "KeyError", english |-> <<>>]
    ELSE IF \E j \in 1..Len(doc.translations) : ~ok[j]
    THEN [raised |-> "TypeError", english |-> <<>>]
    ELSE [raised |-> "", english |-> [j \in 1..Len(doc.translations) |->
                                        doc.translations[j].english_translation]]

generate_markdown(doc) ==
    Rendered(doc, [j \in 1..Len(doc.translations) |-> MarkdownRecordOk(doc.translations[j])])
generate_html(doc) ==
    Rendered(doc, [j \in 1..Len(doc.translations) |-> HtmlRecordOk(doc.translations[j])])

\* main() of generate_document.py with the default format "both", run on
\* the file translate_corpus wrote
GenerateDocument ==
    /\ pc = "Done"
    /\ document' = [markdown |-> generate_markdown(output),
                    html |-> IF generate_markdown(output).raised # "" THEN NotRun
                             ELSE generate_html(output)]
    /\ pc' = "Rendered"
    /\ UNCHANGED <<data, limit, pool, idx, analysis, literal, refined, qa,
                   results, errors, output, calls, probe, args, environ, exit,
                   prompts, tally, site, request>>

Next ==
    \/ Main \/ NewPipeline
    \/ RunAnalyzer \/ RunTranslator \/ RunStylist \/ RunQA \/ Build \/ Save
    \/ GenerateDocument

\* the script started with --api-key a and the environment's key e
StartWith(d, lim, p, a, e) ==
    /\ data = d /\ limit = lim /\ pool = p
    /\ idx = 1
    /\ pc = "Main"
    /\ analysis = None /\ literal = None /\ refined = None /\ qa = None
    /\ results = <<>> /\ errors = <<>> /\ output = NoFile /\ calls = <<>>
    /\ probe = NoProbe
    /\ args = [api_key |-> a] /\ environ = e
    /\ exit = NoExit /\ document = NoDocument
    /\ tally = NoTally /\ prompts = NoPrompts /\ site = NoSite /\ request = NoRequest

\* the script started with a key in the environment
Start(d, lim, p) == StartWith(d, lim, p, None, Str(<<"s", "k">>))

\* a corpus run: up to MaxPoems poems of one verse pair, any limit
Init ==
    \E m \in 0..MaxPoems :
      \E lim \in {NoLimit} \cup {[given |-> TRUE, n |-> k] : k \in 0..(MaxPoems + 1)} :
        Start([i \in 1..m |-> Ghazal(i, 1)], lim, "lean")

Spec == Init /\ [][Next]_vars

\* the run of one poem of up to MaxVerses verse pairs against every answer
InitGhazal ==
    \E g \in {Ghazal(1, n) : n \in 0..MaxVerses} \cup {BrokenGhazal(1)} :
        Start(<<g>>, NoLimit, "rich")

SpecGhazal == InitGhazal /\ [][Next]_vars

\* two poems of different length, every call answered in either shape
InitPair == Start(<<Ghazal(1, 1), Ghazal(2, MaxVerses)>>, NoLimit, "pair")

SpecPair == InitPair /\ [][Next]_vars

\* the corpus run under the scheduling of a sequential program: a step that
\* can be taken is taken
InitFair == \E m \in 0..MaxPoems : Start([i \in 1..m |-> Ghazal(i, 1)], NoLimit, "bare")

FairSpec == InitFair /\ [][Next]_vars /\ WF_vars(Next)

\* the keys a command line or an environment may hold: none, empty, blank,
\* a key, a key after a space
Keys == {None, Str(<<>>), Str(<<" ">>), Str(<<"s", "k">>), Str(<<" ", "s", "k">>)}

\* the script on one poem with every combination of --api-key and environment
InitMain ==
    \E a \in Keys : \E e \in Keys :
        \E m \in 0..1 : StartWith([i \in 1..m |-> Ghazal(i, 1)], NoLimit, "lean", a, e)

SpecMain == InitMain /\ [][Next]_vars

\* ------------------------------------------------------------------ _call_agent alone
\* the lexemes the probed texts are made of
Alphabet == {P("{"), P("}"), P(":"), P(","), S("a"), L("1"), NL, TICK}
Texts == UNION {[1..n -> Alphabet] : n \in 0..MaxLen}

\* _call_agent on the text as the model returned it
ProbePlain ==
    /\ pc = "Probe"
    /\ probe' = [probe EXCEPT !.plain = CallAgentText(probe.text)]
    /\ pc' = "ProbeFenced"
    /\ UNCHANGED <<data, limit, pool, idx, analysis, literal, refined, qa,
                   results, errors, output, calls, args, environ, exit, document, prompts, tally, site, request>>

\* _call_agent on the same text wrapped in a fenced code block
ProbeFenced ==
    /\ pc = "ProbeFenced"
    /\ probe' = [probe EXCEPT !.fenced = CallAgentText(Fence(probe.text)),
                              !.bare = CallAgentText(FenceBare(probe.text))]
    /\ pc' = "Probed"
    /\ UNCHANGED <<data, limit, pool, idx, analysis, literal, refined, qa,
                   results, errors, output, calls, args, environ, exit, document, prompts, tally, site, request>>

InitCall ==
    \E x \in Texts :
        /\ data = <<>> /\ limit = NoLimit /\ pool = "lean" /\ idx = 1 /\ pc = "Probe"
        /\ analysis = None /\ literal = None /\ refined = None /\ qa = None
        /\ results = <<>> /\ errors = <<>> /\ output = NoFile /\ calls = <<>>
        /\ probe = [NoProbe EXCEPT !.text = x]
        /\ args = [api_key |-> None] /\ environ = Str(<<"s", "k">>)
        /\ exit = NoExit /\ document = NoDocument
        /\ tally = NoTally /\ prompts = NoPrompts /\ site = NoSite /\ request = NoRequest
    /\ tally = NoTally /\ prompts = NoPrompts /\ site = NoSite /\ request = NoRequest

NextCall == ProbePlain \/ ProbeFenced

SpecCall == InitCall /\ [][NextCall]_vars

\* ------------------------------------------------------------------ the builders alone
\* what a call of a builder gives: the prompt, or the fact that it raised
Built(ok, text) == IF ok THEN [raised |-> FALSE, text |-> text] ELSE [raised |-> TRUE, text |-> <<>>]

\* the four builders called on the current arguments
CallBuilders ==
    [analyzer |-> Built(AnalyzerPromptOk(data[1]), get_analyzer_prompt(data[1])),
     translator |-> Built(TranslatorPromptOk(data[1], analysis),
                          get_translator_prompt(data[1], analysis)),
     stylist |-> Built(StylistPromptOk(data[1], analysis, literal),
                       get_stylist_prompt(data[1], analysis, literal)),
     qa |-> Built(QaPromptOk(data[1], analysis, literal, refined),
                  get_qa_prompt(data[1], analysis, literal, refined))]

\* a builder that takes the first verse off the poem it is given
BuildPromptsPopping ==
    /\ pc = "Builders"
    /\ prompts' = [prompts EXCEPT !.first = CallBuilders]
    /\ data' = IF IsDict(data[1]) /\ Has(data[1], "verses") /\ IsList(data[1].v["verses"])
                  /\ Len(data[1].v["verses"].v) > 0
               THEN <<Obj([data[1].v EXCEPT !["verses"] = Arr(Tail(data[1].v["verses"].v))])>>
               ELSE data
    /\ pc' = "BuildersAgain"
    /\ UNCHANGED <<limit, pool, idx, analysis, literal, refined, qa, results, errors,
                   output, calls, probe, args, environ, exit, document, tally, site, request>>

\* the four builders are called; they read their arguments and build strings
BuildPrompts ==
    /\ pc = "Builders"
    /\ prompts' = [prompts EXCEPT !.first = CallBuilders]
    /\ pc' = "BuildersAgain"
    /\ UNCHANGED <<data, limit, pool, idx, analysis, literal, refined, qa, results, errors,
                   output, calls, probe, args, environ, exit, document, tally, site, request>>

\* the same calls once more, on the same arguments
BuildPromptsAgain ==
    /\ pc = "BuildersAgain"
    /\ prompts' = [prompts EXCEPT !.second = CallBuilders]
    /\ pc' = "BuildersDone"
    /\ UNCHANGED <<data, limit, pool, idx, analysis, literal, refined, qa, results, errors,
                   output, calls, probe, args, environ, exit, document, tally, site, request>>

\* the records _call_agent can return for an agent's answers
RecordsOf(agent, n) ==
    {CallAgentText(r.text) : r \in {x \in RichPool(agent, n) : x.cls # "transport"}}
\* record.get(field, record) for a dict, the record itself otherwise
Unwrapped(rec, field) == IF IsDict(rec) THEN Get(rec, field, rec) ELSE rec

\* a poem of up to MaxVerses verse pairs and, as upstream records, whatever
\* the stages before can have returned for it
InitBuilders ==
    \E g \in {Ghazal(1, n) : n \in 0..MaxVerses} \cup {BrokenGhazal(1)} :
      \E a \in RecordsOf("Analyzer", VerseCount(g)) :
        \E l \in {Unwrapped(x, "literal_translation") : x \in RecordsOf("Translator", VerseCount(g))} :
          \E r \in {Unwrapped(x, "refined_translation") : x \in RecordsOf("Stylist", VerseCount(g))} :
            /\ data = <<g>> /\ analysis = a /\ literal = l /\ refined = r /\ qa = None
            /\ prompts = [NoPrompts EXCEPT !.given = <<g, a, l, r>>]
            /\ pc = "Builders"
            /\ limit = NoLimit /\ pool = "rich" /\ idx = 1
            /\ results = <<>> /\ errors = <<>> /\ output = NoFile /\ calls = <<>>
            /\ probe = NoProbe
            /\ args = [api_key |-> None] /\ environ = Str(<<"s", "k">>)
            /\ exit = NoExit /\ document = NoDocument
            /\ tally = NoTally /\ site = NoSite /\ request = NoRequest

NextBuilders == BuildPrompts \/ BuildPromptsAgain

SpecBuilders == InitBuilders /\ [][NextBuilders]_vars

\* ------------------------------------------------------------------ fetchers
\* text.split(sep) of a text kept as its characters: cur is the piece begun
RECURSIVE SplitPieces(_, _, _)
SplitPieces(pieces, sep, cur) ==
    IF Len(pieces) = 0 THEN <<cur>>
    ELSE IF Head(pieces) = sep THEN <<cur>> \o SplitPieces(Tail(pieces), sep, <<>>)
    ELSE SplitPieces(Tail(pieces), sep, Append(cur, Head(pieces)))

\* one verse pair of a fetched record
Couplet(h1, h2) == Obj(("hemistich1" :> Str(h1)) @@ ("hemistich2" :> Str(h2)))

\* tag.get_text(strip=True) of a tag holding one text
get_text(tag) == RStrip(LStrip(tag.text))
\* poem_div.find_all('p', class_=...) for the classes given
find_all(page, classes) == SelectSeq(page.tags, LAMBDA tag : tag.cls \in classes)

\* for i in range(0, len(lines), 2): if i + 1 < len(lines): the pair (i, i + 1)
PairUp(lines) == [k \in 1..(Len(lines) \div 2) |-> Couplet(lines[2 * k - 1], lines[2 * k])]

\* the verses fetch_ghazal extracts from the poem div: the m1 and m2 tags
\* zipped, else the tags of a class m<digit> two by two, else the non-empty
\* lines of the whole text two by two
ScrapedVerses(page) ==
    LET m1_tags == find_all(page, {"m1"})
        m2_tags == find_all(page, {"m2"})
        verse_tags == find_all(page, {"m1", "m2"})
        all_text == [k \in 1..Len(page.tags) |-> get_text(page.tags[k])]
    IN IF Len(m1_tags) > 0 /\ Len(m2_tags) > 0
       THEN [k \in 1..Min(Len(m1_tags), Len(m2_tags)) |->
               Couplet(get_text(m1_tags[k]), get_text(m2_tags[k]))]
       ELSE IF Len(verse_tags) > 0
       THEN PairUp([k \in 1..Len(verse_tags) |-> get_text(verse_tags[k])])
       ELSE PairUp(SelectSeq(all_text, LAMBDA l : Len(l) > 0))

\* requests.get(...) / raise_for_status() for poem n completes
Served(n) == site.up /\ n \in 1..Len(site.poems) /\ site.poems[n].ok

\* fetch_ghazal(ghazal_num) of fetch_ganjoor.py: None, or the record
fetch_ghazal(ghazal_num) ==
    IF ~Served(ghazal_num) THEN None
    ELSE LET page == site.poems[ghazal_num] IN
         IF ~page.div THEN None
         ELSE IF Len(ScrapedVerses(page)) = 0 THEN None
         ELSE Obj(("number" :> Lit(ToString(ghazal_num)))
                  @@ ("ganjoor_url" :> Str(<<"https://ganjoor.net/moulavi/shams/ghazalsh/sh",
                                             ToString(ghazal_num), "/">>))
                  @@ ("title" :> Str(IF page.h1 THEN RStrip(LStrip(page.title))
                                     ELSE <<"ghazal shomare ", ToString(ghazal_num)>>))
                  @@ ("meter" :> Str(<<>>)) @@ ("rhyme" :> Str(<<>>))
                  @@ ("verses" :> Arr(ScrapedVerses(page)))
                  @@ ("notes" :> Str(<<>>)))

\* the Persian digits, named by code point, in the order of str.maketrans
PersianDigits == <<"U+06F0", "U+06F1", "U+06F2", "U+06F3", "U+06F4",
                   "U+06F5", "U+06F6", "U+06F7", "U+06F8", "U+06F9">>
ArabicDigits == <<"0", "1", "2", "3", "4", "5", "6", "7", "8", "9">>
\* title.translate(persian_to_arabic), character by character
Translate(c) ==
    IF \E d \in 1..10 : PersianDigits[d] = c
    THEN ArabicDigits[CHOOSE d \in 1..10 : PersianDigits[d] = c]
    ELSE c
IsDigit(c) == \E d \in 1..10 : ArabicDigits[d] = c
DigitOf(c) == (CHOOSE d \in 1..10 : ArabicDigits[d] = c) - 1

\* int() of the digits of text from position k on, acc the value so far
RECURSIVE IntFrom(_, _, _)
IntFrom(text, k, acc) ==
    IF k <= Len(text) /\ IsDigit(text[k]) THEN IntFrom(text, k + 1, acc * 10 + DigitOf(text[k])) ELSE acc

\* _extract_ghazal_number(title): the first run of digits, 0 without one
_extract_ghazal_number(title) ==
    LET title_ascii == [k \in 1..Len(title) |-> Translate(title[k])] IN
    IF \E k \in 1..Len(title_ascii) : IsDigit(title_ascii[k])
    THEN IntFrom(title_ascii,
                 CHOOSE k \in 1..Len(title_ascii) :
                     /\ IsDigit(title_ascii[k])
                     /\ \A j \in 1..(k - 1) : ~IsDigit(title_ascii[j]),
                 0)
    ELSE 0

\* plain_text.replace('\r\n', '\n').replace('\r', '\n')
RECURSIVE NormalizeLines(_)
NormalizeLines(text) ==
    IF Len(text) = 0 THEN <<>>
    ELSE IF Head(text) = "\r" /\ Len(text) > 1 /\ text[2] = "\n" THEN NormalizeLines(Tail(text))
    ELSE IF Head(text) = "\r" THEN <<"\n">> \o NormalizeLines(Tail(text))
    ELSE <<Head(text)>> \o NormalizeLines(Tail(text))

\* _parse_plain_text_verses(plain_text): the non-blank lines, stripped, two
\* by two; the last pair of an odd number of lines has "" as hemistich2
_parse_plain_text_verses(plain_text) ==
    LET split == SplitPieces(NormalizeLines(plain_text), "\n", <<>>)
        lines == SelectSeq([k \in 1..Len(split) |-> RStrip(LStrip(split[k]))], LAMBDA l : Len(l) > 0)
        pairs == [k \in 1..((Len(lines) + 1) \div 2) |->
                    Couplet(lines[2 * k - 1], IF 2 * k <= Len(lines) THEN lines[2 * k] ELSE <<>>)]
    IN SelectSeq(pairs, LAMBDA v : Truthy(v.v["hemistich1"]))

\* _extract_rhyme(text): "-" and the last two characters of the last word
_extract_rhyme(text) ==
    LET words == SelectSeq(SplitPieces(text, " ", <<>>), LAMBDA w : Len(w) > 0) IN
    IF Len(words) > 0 /\ Len(words[Len(words)]) >= 2
    THEN <<"-">> \o SubSeq(words[Len(words)], Len(words[Len(words)]) - 1, Len(words[Len(words)]))
    ELSE <<>>

\* _parse_poem_response(poem_data) for the poem with id poem_id
_parse_poem_response(poem_id) ==
    LET poem_data == site.poems[poem_id]
        verses == _parse_plain_text_verses(poem_data.plain)
    IN IF Len(verses) = 0 THEN None
       ELSE Obj(("number" :> Lit(ToString(_extract_ghazal_number(poem_data.title))))
                @@ ("ganjoor_id" :> Lit(ToString(poem_id)))
                @@ ("ganjoor_url" :> Str(<<"https://ganjoor.net">>))
                @@ ("title" :> Str(poem_data.title))
                @@ ("full_title" :> Str(<<>>))
                @@ ("meter" :> Str(<<>>))
                @@ ("rhyme" :> Str(_extract_rhyme(verses[Len(verses)].v["hemistich2"].v)))
                @@ ("verses" :> Arr(verses))
                @@ ("plain_text" :> Str(poem_data.plain))
                @@ ("notes" :> Str(<<>>)))

\* fetch_ghazal_by_poem_id(poem_id): None when the request fails
fetch_ghazal_by_poem_id(poem_id) ==
    IF ~Served(poem_id) THEN None ELSE _parse_poem_response(poem_id)

\* fetch_ghazal_by_number(ghazal_num, index): the id of a poem is its
\* position in the index
fetch_ghazal_by_number(ghazal_num) ==
    IF ghazal_num < 1 \/ ghazal_num > Len(site.poems) THEN None
    ELSE fetch_ghazal_by_poem_id(ghazal_num)

\* one fetch, as the loop prints it
Fetch(fetcher, rec) ==
    [i |-> idx, agent |-> fetcher, prompt |-> <<>>, cls |-> "",
     out |-> IF Truthy(rec) THEN "record" ELSE "none", rec |-> rec]

FetchUnchanged ==
    UNCHANGED <<limit, pool, analysis, literal, refined, qa, results, errors, output, probe,
                args, environ, exit, document, prompts, tally, site, request>>

\* one turn of the loop of fetch_ghazals(start, count)
FetchGhazals ==
    /\ pc = "fetch_ghazals"
    /\ idx < request.start + request.count
    /\ data' = IF Truthy(fetch_ghazal(idx)) THEN Append(data, fetch_ghazal(idx)) ELSE data
    /\ calls' = Append(calls, Fetch("fetch_ghazal", fetch_ghazal(idx)))
    /\ idx' = idx + 1
    /\ UNCHANGED pc
    /\ FetchUnchanged

\* the index request of fetch_divan_ghazals: a failure returns the empty list
FetchIndex ==
    /\ pc = "get_ghazal_index"
    /\ pc' = IF site.up THEN "fetch_divan_ghazals" ELSE "Fetched"
    /\ UNCHANGED <<data, calls, idx>>
    /\ FetchUnchanged

\* end = min(start + count - 1, len(index))
End == Min(request.start + request.count - 1, Len(site.poems))

\* one turn of the loop of fetch_divan_ghazals(start, count)
FetchDivanGhazals ==
    /\ pc = "fetch_divan_ghazals"
    /\ idx <= End
    /\ data' = IF Truthy(fetch_ghazal_by_number(idx))
               THEN Append(data, fetch_ghazal_by_number(idx)) ELSE data
    /\ calls' = Append(calls, Fetch("fetch_ghazal_by_number", fetch_ghazal_by_number(idx)))
    /\ idx' = idx + 1
    /\ UNCHANGED pc
    /\ FetchUnchanged

\* either loop is over: return ghazals
ReturnGhazals ==
    /\ \/ pc = "fetch_ghazals" /\ idx >= request.start + request.count
       \/ pc = "fetch_divan_ghazals" /\ idx > End
    /\ pc' = "Fetched"
    /\ UNCHANGED <<data, calls, idx>>
    /\ FetchUnchanged

\* the parts a page is made of: the classes of its <p> tags and the
\* characters of a text
Classes == {"m1", "m2", "p"}
TagTexts == {<<>>, <<" ">>, <<"a">>}
Chars == {"a", " ", "\n", "\r"}
SeqsUpTo(elems, n) == UNION {[1..k -> elems] : k \in 0..n}

\* the title "ghazal number k" in Persian digits
RECURSIVE PersianNumber(_)
PersianNumber(k) ==
    IF k < 10 THEN <<PersianDigits[k + 1]>> ELSE PersianNumber(k \div 10) \o <<PersianDigits[(k % 10) + 1]>>
Title(k) == <<"ghazal", " ", "shomare", " ">> \o PersianNumber(k)

\* poem k as the server holds it: served or not, the page with or without
\* a poem div and an <h1>, its <p> tags, and title and plainText of the API
Poem(ok, div, tags, title, plain) ==
    [ok |-> ok, div |-> div, h1 |-> Len(title) > 0, tags |-> tags, title |-> title, plain |-> plain]
GoodPoem(k) ==
    Poem(TRUE, TRUE, <<[cls |-> "m1", text |-> <<"a", "b">>], [cls |-> "m2", text |-> <<"c", "d">>]>>,
         Title(k), <<"a", "b", "\n", "c", "d">>)
\* every page of up to MaxParts tags, every plain text of up to MaxParts
\* characters under four titles
Pages ==
    {Poem(TRUE, d, t, <<>>, <<>>) :
        d \in BOOLEAN, t \in SeqsUpTo([cls : Classes, text : TagTexts], MaxParts)}
Texts4 ==
    {Poem(TRUE, TRUE, <<>>, t, p) :
        t \in {<<>>, Title(1), <<"1", "2">>, <<"x", "U+06F1", "y", "2">>},
        p \in SeqsUpTo(Chars, MaxParts)}
\* poem k of a longer site: as it should be, with a title without a number
\* or with the number of its neighbour, not served, or without verses
Samples(k) ==
    {GoodPoem(k),
     [GoodPoem(k) EXCEPT !.title = <<"ghazal">>],
     [GoodPoem(k) EXCEPT !.title = Title(k + 1)],
     [GoodPoem(k) EXCEPT !.ok = FALSE],
     Poem(TRUE, FALSE, <<>>, Title(k), <<>>)}
Sites ==
    UNION {{q \in [1..m -> UNION {Samples(k) : k \in 1..m}] : \A k \in 1..m : q[k] \in Samples(k)} :
              m \in 0..MaxPoems}

\* a fetch run of either fetcher: one poem of any content asked for alone,
\* or a range of a site of up to MaxPoems poems
InitFetch ==
    /\ pc \in {"fetch_ghazals", "get_ghazal_index"}
    /\ \/ /\ site \in {[up |-> TRUE, poems |-> <<e>>] : e \in Pages \cup Texts4}
          /\ request = [start |-> 1, count |-> 1]
       \/ /\ site \in {[up |-> u, poems |-> q] : u \in BOOLEAN, q \in Sites}
          /\ request \in [start : 0..2, count : 0..MaxPoems]
    /\ idx = request.start
    /\ data = <<>> /\ calls = <<>>
    /\ limit = NoLimit /\ pool = "none"
    /\ analysis = None /\ literal = None /\ refined = None /\ qa = None
    /\ results = <<>> /\ errors = <<>> /\ output = NoFile
    /\ probe = NoProbe
    /\ args = [api_key |-> None] /\ environ = None
    /\ exit = NoExit /\ document = NoDocument
    /\ tally = NoTally /\ prompts = NoPrompts

NextFetch == FetchGhazals \/ FetchIndex \/ FetchDivanGhazals \/ ReturnGhazals

SpecFetch == InitFetch /\ [][NextFetch]_vars

\* ------------------------------------------------------------------ claims
\* the calls made for poem i, in order
CallsOf(i) == SelectSeq(calls, LAMBDA c : c.i = i)
\* the position of call k among the calls of its poem
PosInPoem(k) == Cardinality({j \in 1..k : calls[j].i = calls[k].i})
\* the position in ghazals of the poem a result or a printed error is about
PoemOf(number) == CHOOSE i \in 1..Len(ghazals) : Get(ghazals[i], "number", None) = number
Returned(i) == {k \in 1..Len(CallsOf(i)) : CallsOf(i)[k].out # "raised"}
Ended(i) == i < idx

\* C1: within one run of translate_ghazal the model is called in the order
\* Analyzer, Translator, Stylist, QA, each agent at most once, an agent only
\* after the call before it has returned, and a result exists only after
\* all four calls have returned.
C1_FixedOrder ==
    /\ \A k \in 1..Len(calls) :
          /\ PosInPoem(k) <= 4
          /\ calls[k].agent = Agents[PosInPoem(k)]
          /\ k > 1 /\ PosInPoem(k) > 1 =>
                calls[k - 1].i = calls[k].i /\ calls[k - 1].out # "raised"
    /\ \A j \in 1..Len(results) :
          Returned(PoemOf(results[j].ghazal_number)) = 1..4

C1_Witness ==
    /\ Len(results) = 1
    /\ Len(CallsOf(1)) = 4
    /\ CallsOf(1)[4].agent = "QA"

\* C2: a poem with a well-formed verse list of which one, several or all
\* four stage responses are not parseable JSON (the others being what the
\* system prompts ask for) still ends with a TranslationResult, and no
\* exception leaves translate_ghazal.
C2_UnparseableYieldsResult ==
    \A i \in 1..Len(ghazals) :
        ( /\ Ended(i)
          /\ VersesLoopOk(ghazals[i])
          /\ \A k \in 1..Len(CallsOf(i)) : CallsOf(i)[k].cls \in {"good", "unparseable"}
          /\ \E k \in 1..Len(CallsOf(i)) : CallsOf(i)[k].cls = "unparseable" )
        => /\ \E j \in 1..Len(results) : PoemOf(results[j].ghazal_number) = i
           /\ \A j \in 1..Len(errors) : PoemOf(errors[j].number) # i

C2_Witness ==
    /\ Len(results) = 1
    /\ \A k \in 1..4 : CallsOf(1)[k].cls = "unparseable"
    /\ Len(CallsOf(1)) = 4
    /\ Len(errors) = 0

\* C3: a model call that fails at transport level ends the run of its poem:
\* no later call is made for that poem, no result is produced for it, the
\* failure is caught by translate_corpus, and the next model call is the
\* Analyzer call of the next poem (which is made whenever there is a next
\* poem).
C3_TransportFailureSkipsPoem ==
    \A k \in 1..Len(calls) :
        calls[k].out = "raised" =>
            /\ \A j \in (k + 1)..Len(calls) : calls[j].i # calls[k].i
            /\ \A j \in 1..Len(results) : PoemOf(results[j].ghazal_number) # calls[k].i
            /\ \E j \in 1..Len(errors) : PoemOf(errors[j].number) = calls[k].i
            /\ k < Len(calls) =>
                  calls[k + 1].agent = "Analyzer" /\ calls[k + 1].i = calls[k].i + 1
            /\ pc = "Done" /\ calls[k].i < Len(ghazals) => k < Len(calls)

C3_Witness ==
    /\ Len(calls) >= 4
    /\ calls[3].out = "raised" /\ calls[3].agent = "Stylist" /\ calls[3].i = 1
    /\ calls[4].agent = "Analyzer" /\ calls[4].i = 2

\* the numbers of the poems at the positions q
NumbersOf(q) == [j \in 1..Len(q) |-> ghazals[q[j]].v["number"]]
Positions == [i \in 1..Len(ghazals) |-> i]

HasRaisedCall(i) == \E k \in 1..Len(CallsOf(i)) : CallsOf(i)[k].out = "raised"
AllFourReturned(i) == Returned(i) = 1..4

\* C4: when translate_corpus has finished, the persisted translations are
\* exactly the results of the poems whose four stage calls returned, in
\* input order, one each; and exactly the poems whose run raised have one
\* printed failure each, with the poem number and the error.
C4_PersistedResults ==
    pc = "Done" =>
        /\ output.written = 1
        /\ [j \in 1..Len(output.translations) |-> output.translations[j].ghazal_number]
              = NumbersOf(SelectSeq(Positions, AllFourReturned))
        /\ [j \in 1..Len(errors) |-> errors[j].number] = NumbersOf(SelectSeq(Positions, HasRaisedCall))
        /\ \A j \in 1..Len(errors) : errors[j].error = "APIError"
        /\ \A i \in 1..Len(ghazals) : AllFourReturned(i) # HasRaisedCall(i)

C4_Witness ==
    /\ pc = "Done"
    /\ Len(ghazals) = 3
    /\ Len(CallsOf(2)) = 1 /\ CallsOf(2)[1].out = "raised"
    /\ [j \in 1..Len(output.translations) |-> output.translations[j].ghazal_number]
          = <<Lit("1"), Lit("3")>>
    /\ Len(errors) = 1 /\ errors[1].number = Lit("2")

HasResult(i) == \E j \in 1..Len(results) : PoemOf(results[j].ghazal_number) = i

\* C5: every stage response of a completed model call is non-fatal for the
\* poem, whatever its content: a poem none of whose calls failed ends with a
\* TranslationResult.
C5_CompletedCallsNonFatal ==
    \A i \in 1..Len(ghazals) :
        (Ended(i) /\ VersesLoopOk(ghazals[i]) /\ ~HasRaisedCall(i)) => HasResult(i)

\* the refined_translation of a result is a dict with a non-empty list of line pairs
HasPairs(res) ==
    /\ IsDict(res.refined_translation)
    /\ Has(res.refined_translation, "refined_translation")
    /\ IsDict(res.refined_translation.v["refined_translation"])
    /\ Has(res.refined_translation.v["refined_translation"], "verses")
    /\ IsList(res.refined_translation.v["refined_translation"].v["verses"])
    /\ Len(res.refined_translation.v["refined_translation"].v["verses"].v) > 0
\* its flowing text: "" when the field is absent
FullText(res) == Get(res.refined_translation.v["refined_translation"], "full_text", Str(<<>>))
\* line1 and line2 of every pair, in verse order, joined by newlines
PairsText(res) ==
    Str(Join(PiecesOf(PairLines(res.refined_translation.v["refined_translation"].v["verses"].v)),
             <<"\n">>))

\* C6: when the flowing text of the refined record is empty or absent and
\* its line pairs are not, final_translation is line1 and line2 of every
\* pair, in verse order, joined by newlines.
C6_EmptyTextFallsBackToPairs ==
    \A j \in 1..Len(results) :
        (HasPairs(results[j]) /\ ~Truthy(FullText(results[j])))
        => results[j].final_translation = PairsText(results[j])

\* C7: when the refined record has both a populated flowing text and line
\* pairs, final_translation is the flowing text exactly.
C7_FullTextWins ==
    \A j \in 1..Len(results) :
        (HasPairs(results[j]) /\ Truthy(FullText(results[j])))
        => results[j].final_translation = FullText(results[j])

C7_Witness ==
    /\ Len(results) = 1
    /\ HasPairs(results[1])
    /\ FullText(results[1]) = Str(<<"Come, come!">>)
    /\ results[1].final_translation = Str(<<"Come, come!">>)
    /\ PairsText(results[1]) = Str(<<"A1", "\n", "B1">>)

\* the verses a stage record carries, unwrapped as the pipeline unwraps it
CarriedVerses(rec, field) ==
    IF ~IsDict(rec) THEN None
    ELSE IF ~IsDict(Get(rec, field, rec)) THEN None
    ELSE Get(Get(rec, field, rec), "verses", None)

\* C8: in every TranslationResult the literal translation, and every other
\* stage output that carries verses, has as many verses as the source poem.
C8_VerseAlignment ==
    \A j \in 1..Len(results) :
        /\ IsList(CarriedVerses(results[j].literal_translation, "literal_translation")) =>
              Len(CarriedVerses(results[j].literal_translation, "literal_translation").v)
                 = Len(results[j].persian_text.v)
        /\ IsList(CarriedVerses(results[j].refined_translation, "refined_translation")) =>
              Len(CarriedVerses(results[j].refined_translation, "refined_translation").v)
                 = Len(results[j].persian_text.v)

\* C9: for every text that parses as a JSON object, _call_agent returns the
\* same record for the text wrapped in a fenced code block as for the text
\* itself.
C9_FenceTransparent ==
    (pc = "Probed" /\ JsonLoads(probe.text).ok /\ IsDict(JsonLoads(probe.text).val))
    => /\ probe.fenced = probe.plain
       /\ probe.bare = probe.plain
       /\ probe.plain = JsonLoads(probe.text).val

C9_Witness ==
    /\ pc = "Probed"
    /\ probe.text = <<P("{"), S("a"), P(":"), L("1"), P("}")>>
    /\ probe.fenced = Obj("a" :> Lit("1"))
    /\ probe.plain = Obj("a" :> Lit("1"))

\* C10: when parsing fails, _call_agent returns a record of exactly two
\* fields: the response text as the model returned it, and an error marker.
C10_DegradedHoldsRawText ==
    (pc \in {"ProbeFenced", "Probed"} /\ OutcomeOf(probe.plain) = "degraded")
    => /\ DOMAIN probe.plain.v = {"raw_response", "parse_error"}
       /\ probe.plain.v["raw_response"] = Raw(probe.text)

\* C11: the confidence of a result is the confidence field of its QA record,
\* or medium when the record has none; needs_review is the review flag of the
\* QA record when it has one, and otherwise true exactly when the confidence
\* is low.
C11_ConfidenceAndReview ==
    \A j \in 1..Len(results) :
        LET q == results[j].qa_result.v IN
        /\ results[j].confidence =
              (IF "confidence" \in DOMAIN q THEN q["confidence"] ELSE Str(<<"medium">>))
        /\ "flags_for_human_review" \in DOMAIN q =>
              results[j].needs_review = q["flags_for_human_review"]
        /\ "flags_for_human_review" \notin DOMAIN q =>
              /\ results[j].needs_review \in {Lit("true"), Lit("false")}
              /\ results[j].needs_review = Lit("true") <=> results[j].confidence = Str(<<"low">>)

C11_Witness ==
    /\ Len(results) = 1
    /\ results[1].qa_result = QaLow
    /\ results[1].confidence = Str(<<"low">>)
    /\ results[1].needs_review = Lit("true")

\* the lines of a joined text: the pieces between its "\n" separators
RECURSIVE LinesOf(_, _)
LinesOf(pieces, line) ==
    IF Len(pieces) = 0 THEN (IF Len(line) = 0 THEN <<>> ELSE <<line>>)
    ELSE IF Head(pieces) = "\n" THEN <<line>> \o LinesOf(Tail(pieces), <<>>)
    ELSE LinesOf(Tail(pieces), Append(line, Head(pieces)))

\* the five categories in the order of the notes, with the text of the heading
NoteOrder ==
    << [cat |-> "quranic_allusions", src |-> "analysis", title |-> "**Quranic Allusions:**"],
       [cat |-> "sufi_terminology", src |-> "analysis", title |-> "**Sufi Terminology:**"],
       [cat |-> "ambiguities", src |-> "analysis", title |-> "**Deliberate Ambiguities:**"],
       [cat |-> "wordplay", src |-> "analysis", title |-> "**Wordplay (Lost in Translation):**"],
       [cat |-> "translation_notes", src |-> "literal", title |-> "**Translation Notes:**"] >>

\* the category a line is the heading of (0: the line is no heading)
HeadingOf(line) ==
    IF \E c \in 1..5 : line \in {<<NoteOrder[c].title>>, <<"\n" \o NoteOrder[c].title>>}
    THEN CHOOSE c \in 1..5 : line \in {<<NoteOrder[c].title>>, <<"\n" \o NoteOrder[c].title>>}
    ELSE 0

\* the items a result's stage records hold for category c
ItemsOf(res, c) ==
    LET d == IF NoteOrder[c].src = "analysis" THEN res.analysis ELSE res.literal_translation IN
    IF IsDict(d) /\ NoteOrder[c].cat \in DOMAIN d.v /\ IsList(d.v[NoteOrder[c].cat])
    THEN d.v[NoteOrder[c].cat].v ELSE <<>>

\* C12: the scholarly notes are the blocks of exactly the non-empty
\* categories, in the order Quranic allusions, Sufi terminology,
\* ambiguities, wordplay, translation notes; a block is the heading of the
\* category followed by one bullet per item, in item order; an empty or
\* absent category contributes no line.
C12_NotesBlocks ==
    \A j \in 1..Len(results) :
        LET lines == LinesOf(results[j].scholarly_notes.v, <<>>)
            heads == SelectSeq([k \in 1..Len(lines) |-> k], LAMBDA k : HeadingOf(lines[k]) # 0)
            present == SelectSeq([c \in 1..5 |-> c], LAMBDA c : Len(ItemsOf(results[j], c)) > 0)
            EndOf(b) == IF b < Len(heads) THEN heads[b + 1] - 1 ELSE Len(lines)
        IN
        /\ [b \in 1..Len(heads) |-> HeadingOf(lines[heads[b]])] = present
        /\ Len(lines) > 0 => heads[1] = 1
        /\ \A b \in 1..Len(heads) :
              SubSeq(lines, heads[b] + 1, EndOf(b))
                 = [i \in 1..Len(ItemsOf(results[j], present[b])) |->
                       NoteLine(NoteOrder[present[b]].cat, ItemsOf(results[j], present[b])[i])]

C12_Witness ==
    /\ Len(results) = 1
    /\ results[1].analysis = AnalysisTerms
    /\ results[1].literal_translation = LiteralGood(1)
    /\ LinesOf(results[1].scholarly_notes.v, <<>>)
          = << <<"\n**Sufi Terminology:**">>,
               <<"- *", "fana", "* (", "fna", "): ", "annihilation">>,
               <<"- *", "saqi", "* (", "): ", "cupbearer">>,
               <<"\n**Wordplay (Lost in Translation):**">>,
               <<"- *", "ney", "*: ", "reed", ", ", "no">>,
               <<"\n**Translation Notes:**">>,
               <<"- Verse ", "1", ": ", "idiom">> >>

\* C13: when the analysis has no Quranic allusion, no Sufi term, no
\* ambiguity and no wordplay entry and the literal translation no
\* translation note (each empty or absent, degraded records included),
\* scholarly_notes is the empty string.
C13_NoItemsNoNotes ==
    \A j \in 1..Len(results) :
        (\A c \in 1..5 : Len(ItemsOf(results[j], c)) = 0)
        => results[j].scholarly_notes = Str(<<>>)

C13_Witness ==
    /\ Len(results) = 1
    /\ OutcomeOf(results[1].analysis) = "degraded"
    /\ "translation_notes" \notin DOMAIN results[1].literal_translation.v
    /\ "verses" \in DOMAIN results[1].literal_translation.v
    /\ results[1].scholarly_notes = Str(<<>>)

HasError(i) == \E j \in 1..Len(errors) : PoemOf(errors[j].number) = i
\* the poems whose run has begun, in the order of their first step
Attempted == [k \in 1..Len(SelectSeq(calls, LAMBDA c : c.agent = "Analyzer")) |->
                 SelectSeq(calls, LAMBDA c : c.agent = "Analyzer")[k].i]

\* C14: whatever the input collection and whichever poems fail,
\* translate_corpus starts the run of each selected poem once, in input
\* order, no failure of a poem ends the loop, and the output is eventually
\* written, after every selected poem has been attempted.
C14_EveryPoemAttemptedThenSaved ==
    /\ [](/\ Attempted = [k \in 1..Len(Attempted) |-> k]
          /\ Len(Attempted) <= Len(ghazals)
          /\ ~exit.exited => output.written = 0)
    /\ <>(/\ output.written = 1
          /\ Len(Attempted) = Len(ghazals)
          /\ \A i \in 1..Len(ghazals) : HasResult(i) # HasError(i))

C14_Witness ==
    /\ output.written = 1
    /\ Len(ghazals) = 3
    /\ Attempted = <<1, 2, 3>>
    /\ HasError(1) /\ HasResult(2) /\ HasError(3)

\* C15: a result carries the number and the verses of its source poem and,
\* as analysis, literal_translation, refined_translation and qa_result, the
\* records the four calls of its poem returned; between a call's return and
\* the result neither a stage record nor the input changes.
C15_ResultCarriesStageRecords ==
    /\ [](\A j \in 1..Len(results) :
            LET i == PoemOf(results[j].ghazal_number) IN
            /\ results[j].ghazal_number = ghazals[i].v["number"]
            /\ results[j].persian_text = ghazals[i].v["verses"]
            /\ Len(CallsOf(i)) = 4
            /\ results[j].analysis = CallsOf(i)[1].rec
            /\ results[j].literal_translation = CallsOf(i)[2].rec
            /\ results[j].refined_translation = CallsOf(i)[3].rec
            /\ results[j].qa_result = CallsOf(i)[4].rec)
    /\ [](pc \in {"Translator", "Stylist", "QA", "Build"} =>
            /\ analysis = CallsOf(idx)[1].rec
            /\ pc \in {"Stylist", "QA", "Build"} => literal = CallsOf(idx)[2].rec
            /\ pc \in {"QA", "Build"} => refined = CallsOf(idx)[3].rec
            /\ pc = "Build" => qa = CallsOf(idx)[4].rec)
    /\ [][data' = data /\ limit' = limit]_vars

C15_Witness ==
    /\ Len(results) = 1
    /\ results[1].ghazal_number = Lit("1")
    /\ results[1].persian_text = Arr(<<Verse(1), Verse(2)>>)
    /\ results[1].literal_translation = LiteralGood(2)
    /\ CallsOf(1)[2].rec = LiteralGood(2)
    /\ OutcomeOf(results[1].analysis) = "degraded"

\* C16: generate_markdown and generate_html render every file
\* translate_corpus writes: no read of a field fails, and the English text
\* under each poem is the final_translation of its record.
C16_RendererReadsPipelineOutput ==
    pc = "Rendered" =>
        /\ document.markdown.raised = ""
        /\ document.html.raised = ""
        /\ document.markdown.english
              = [j \in 1..Len(output.translations) |-> output.translations[j].final_translation]
        /\ document.html.english = document.markdown.english

\* C17: get_translator_prompt, get_stylist_prompt and get_qa_prompt return
\* a prompt for every upstream record that is a JSON object, whichever
\* fields the record or the items of its lists lack: a poem whose completed
\* calls all returned objects has all four calls made.
C17_BuildersTolerateMissingFields ==
    \A i \in 1..Len(ghazals) :
        ( /\ Ended(i)
          /\ VersesLoopOk(ghazals[i])
          /\ ~HasRaisedCall(i)
          /\ \A k \in 1..Len(CallsOf(i)) : IsDict(CallsOf(i)[k].rec) )
        => Len(CallsOf(i)) = 4

\* C18: a model call is made for the poem the loop is at, when every
\* earlier poem has ended with a result or a printed failure and the poem
\* itself has not; the poems of the call log never go back.
C18_OnePoemAtATime ==
    [][Len(calls') > Len(calls) =>
          /\ calls'[Len(calls')].i = idx
          /\ \A i \in 1..(idx - 1) : HasResult(i) \/ HasError(i)
          /\ ~HasResult(idx) /\ ~HasError(idx)
          /\ \A k \in 1..Len(calls) : calls[k].i <= idx]_vars

C18_Witness ==
    /\ Len(calls) = 6
    /\ [k \in 1..6 |-> calls[k].i] = <<1, 1, 2, 2, 2, 3>>
    /\ HasError(1) /\ HasError(2) /\ ~HasError(3)

\* no key on the command line and none, or a blank one, in the environment
NoCredential ==
    /\ args.api_key = None
    /\ environ = None \/ Strip(environ) = Str(<<>>)

\* C19: without a credential the script ends at startup: it prints the
\* message that tells how to set the key and exits with a non-zero status,
\* no model call is made, no poem is processed, no output file is written.
C19_NoCredentialFailsAtStartup ==
    (NoCredential /\ pc # "Main") =>
        /\ pc = "Exited"
        /\ exit.exited /\ exit.status # 0
        /\ exit.message = MissingKeyMessage
        /\ calls = <<>> /\ results = <<>> /\ errors = <<>>
        /\ output.written = 0

C19_Witness ==
    /\ args.api_key = None
    /\ environ = Str(<<" ">>)
    /\ Len(data) = 1
    /\ pc = "Exited"
    /\ exit.status = 1
    /\ calls = <<>>

\* C20: a poem with an empty verse list whose four responses are what the
\* system prompts ask for, or no JSON, goes through all four stages and
\* ends with a result whose persian_text is the empty list; nothing is
\* raised.
C20_EmptyVerseListYieldsResult ==
    \A i \in 1..Len(ghazals) :
        ( /\ Ended(i)
          /\ Has(ghazals[i], "verses") /\ ghazals[i].v["verses"] = Arr(<<>>)
          /\ \A k \in 1..Len(CallsOf(i)) : CallsOf(i)[k].cls \in {"good", "unparseable"} )
        => /\ Len(CallsOf(i)) = 4
           /\ ~HasError(i)
           /\ \E j \in 1..Len(results) :
                 /\ PoemOf(results[j].ghazal_number) = i
                 /\ results[j].persian_text = Arr(<<>>)

C20_Witness ==
    /\ Len(results) = 1
    /\ data = <<Ghazal(1, 0)>>
    /\ results[1].persian_text = Arr(<<>>)
    /\ results[1].analysis = AnalysisFull
    /\ Len(CallsOf(1)) = 4

NestedOrWhole(rec, field) == IF field \in DOMAIN rec.v THEN rec.v[field] ELSE rec
\* the record call number p of poem i returned
RecOf(i, p) == CallsOf(i)[p].rec

\* C24: the prompt of every call is the builder's text for the poem of the
\* call and the records the earlier calls of the same poem returned; the
\* Stylist gets the literal record's literal_translation when there is one,
\* else the whole literal record; QA gets that same literal form and the
\* refined record's refined_translation when there is one, else the whole
\* refined record.
C24_HandOffUnwrapping ==
    \A k \in 1..Len(calls) :
        LET i == calls[k].i  g == ghazals[calls[k].i] IN
        CASE calls[k].agent = "Analyzer" -> calls[k].prompt = get_analyzer_prompt(g)
          [] calls[k].agent = "Translator" ->
               calls[k].prompt = get_translator_prompt(g, RecOf(i, 1))
          [] calls[k].agent = "Stylist" ->
               calls[k].prompt = get_stylist_prompt(g, RecOf(i, 1),
                                     NestedOrWhole(RecOf(i, 2), "literal_translation"))
          [] OTHER ->
               calls[k].prompt = get_qa_prompt(g, RecOf(i, 1),
                                     NestedOrWhole(RecOf(i, 2), "literal_translation"),
                                     NestedOrWhole(RecOf(i, 3), "refined_translation"))

C24_Witness ==
    /\ Len(calls) = 8
    /\ RecOf(1, 2) = LiteralGood(1) /\ RecOf(1, 3) = RefinedPairsOnly(1)
    /\ RecOf(2, 2) = LiteralVerses(MaxVerses) /\ RecOf(2, 3) = RefinedNoText(MaxVerses)
    /\ calls[3].prompt = get_stylist_prompt(Ghazal(1, 1), AnalysisFull, LiteralVerses(1))
    /\ calls[8].prompt = get_qa_prompt(Ghazal(2, MaxVerses), AnalysisFull, LiteralVerses(MaxVerses),
                                       RefinedPairsOnly(MaxVerses))
    /\ calls[8].prompt # calls[4].prompt

\* what a Translator prompt holds between "**Analysis Context**:" and the
\* closing instructions
ContextOf(prompt) ==
    LET at == CHOOSE k \in 1..Len(prompt) : prompt[k] = "\n\n**Analysis Context**:\n"
    IN SubSeq(prompt, at + 1, Len(prompt) - 1)

\* the four categories of the Translator prompt: heading and the field that
\* names an item
ContextOrder ==
    << [cat |-> "quranic_allusions", title |-> "**Quranic Allusions**:\n", key |-> "phrase"],
       [cat |-> "sufi_terminology", title |-> "**Sufi Terms**:\n", key |-> "term"],
       [cat |-> "ambiguities", title |-> "**Ambiguities to Preserve**:\n", key |-> "phrase"],
       [cat |-> "wordplay", title |-> "**Wordplay**:\n", key |-> "word"] >>

\* the items an analysis record holds for category c of the prompt
ContextItems(a, c) ==
    IF IsDict(a) /\ ContextOrder[c].cat \in DOMAIN a.v /\ IsList(a.v[ContextOrder[c].cat])
    THEN a.v[ContextOrder[c].cat].v ELSE <<>>

\* the sections of a context are those of the categories cs, one line per item
SectionsMatch(ctx, a, cs) ==
    LET sections == SplitPieces(ctx, "\n\n", <<>>) IN
    /\ Len(sections) = Len(cs)
    /\ \A b \in 1..Len(cs) :
          LET lines == SplitPieces(Tail(sections[b]), "\n", <<>>)
              items == ContextItems(a, cs[b])
          IN /\ Head(sections[b]) = ContextOrder[cs[b]].title
             /\ Len(lines) = Len(items)
             /\ \A n \in 1..Len(items) :
                   /\ Head(lines[n]) = "- "
                   /\ SubSeq(lines[n], 2, 1 + Len(Fmt(items[n].v[ContextOrder[cs[b]].key])))
                         = Fmt(items[n].v[ContextOrder[cs[b]].key])

\* C25: the analysis context of every Translator prompt has a section for
\* exactly the categories that are non-empty in the analysis the Analyzer
\* call returned, in the order allusions, terms, ambiguities, wordplay, each
\* with one line per item in item order; when no category has an item, the
\* context is exactly "No special notes.".
C25_TranslatorRestatesAnalysis ==
    \A k \in 1..Len(calls) :
        calls[k].agent = "Translator" =>
            LET a == RecOf(calls[k].i, 1)
                ctx == ContextOf(calls[k].prompt)
                present == SelectSeq([c \in 1..4 |-> c], LAMBDA c : Len(ContextItems(a, c)) > 0)
            IN IF Len(present) = 0 THEN ctx = <<"No special notes.">>
               ELSE SectionsMatch(ctx, a, present)

C25_Witness ==
    /\ Len(CallsOf(1)) >= 2 /\ Len(CallsOf(2)) >= 2
    /\ RecOf(1, 1) = AnalysisTerms
    /\ ContextOf(CallsOf(1)[2].prompt)
          = <<"**Sufi Terms**:\n", "- ", "fana", ": ", "annihilation", "\n",
              "- ", "saqi", ": ", "cupbearer", "\n\n",
              "**Wordplay**:\n", "- ", "ney", ": ", "reed", ", ", "no">>
    /\ OutcomeOf(RecOf(2, 1)) = "degraded"
    /\ ContextOf(CallsOf(2)[2].prompt) = <<"No special notes.">>

\* the text a QA prompt shows under "**Refined Translation** (to review):"
QaShown(prompt) ==
    LET from == CHOOSE k \in 1..Len(prompt) : prompt[k] = "\n\n**Refined Translation** (to review):\n"
        to == CHOOSE k \in 1..Len(prompt) : prompt[k] = "\n\n**Analysis Summary**:\n"
    IN SubSeq(prompt, from + 1, to - 1)

\* C26: for every result whose refined record has line pairs, the QA prompt
\* of the poem shows the flowing text exactly when final_translation is the
\* flowing text, and shows the text rebuilt from the line pairs exactly when
\* final_translation is rebuilt from the line pairs.
C26_QaReviewsPublishedText ==
    \A j \in 1..Len(results) :
        HasPairs(results[j]) =>
            LET shown == QaShown(CallsOf(PoemOf(results[j].ghazal_number))[4].prompt)
                inner == results[j].refined_translation.v["refined_translation"]
            IN /\ (shown = Fmt(FullText(results[j])))
                     <=> (results[j].final_translation = FullText(results[j]))
               /\ (shown = QaPairsText(inner))
                     <=> (results[j].final_translation = PairsText(results[j]))

\* C27: every result whose confidence is low has needs_review true.
C27_LowIsFlagged ==
    \A j \in 1..Len(results) :
        results[j].confidence = Str(<<"low">>) => Truthy(results[j].needs_review)

\* the number of poems a run is to attempt: min(n, m) under a limit n, else m
Selected == IF limit.given THEN Min(limit.n, Len(data)) ELSE Len(data)

\* C30: the poems attempted are the first min(n, m) poems of the input, in
\* input order, under a limit n >= 0, and all m poems without a limit: never
\* more than those, and exactly those once the loop has ended.
C30_LimitBoundsTheWork ==
    /\ Len(Attempted) <= Selected
    /\ \A k \in 1..Len(Attempted) : Attempted[k] = k
    /\ pc \in {"Save", "Done", "Rendered"} => Len(Attempted) = Selected

\* C28: the output document is written once, by the step after the loop,
\* when every selected poem has been attempted, and holds the collected
\* results; at every point before it nothing has been written, whatever
\* poems have completed.
C28_WrittenOnceAtTheEnd ==
    /\ output.written <= 1
    /\ pc \notin {"Done", "Rendered"} => output = NoFile
    /\ pc \in {"Done", "Rendered"} =>
          /\ output.written = 1
          /\ idx = Len(ghazals) + 1
          /\ output.translations = results

\* a poem has completed, another is under way, and no document exists;
\* C28_Written is the end of such a run
C28_Witness ==
    /\ Len(results) >= 1 /\ idx <= Len(ghazals) /\ pc = "QA"
    /\ output = NoFile

C28_Written ==
    /\ pc = "Done" /\ output.written = 1
    /\ Len(output.translations) >= 2 /\ Len(errors) >= 1

\* C29: once the tally is printed, its counts of high, medium and low
\* confidence add up to the number of results written, and its count for
\* review is the number of results whose needs_review is true.
C29_TallyPartitionsResults ==
    tally.printed =>
        /\ tally.high + tally.medium + tally.low = Len(output.translations)
        /\ tally.review = Cardinality({j \in 1..Len(output.translations) :
                                          Truthy(output.translations[j].needs_review)})

\* the verse pairs of a fetched record (none when it has no list)
VersesOf(rec) == IF Has(rec, "verses") /\ IsList(rec.v["verses"]) THEN rec.v["verses"].v ELSE <<>>

\* C22: every record a fetch returned, by either fetcher, has a non-empty
\* list of verse pairs and every pair has a non-empty hemistich1; a page
\* without such verses yields no record.
C22_FetchedVersesHaveFirstHalf ==
    \A k \in 1..Len(calls) :
        calls[k].rec # None =>
            /\ Len(VersesOf(calls[k].rec)) > 0
            /\ \A j \in 1..Len(VersesOf(calls[k].rec)) :
                  Truthy(Get(VersesOf(calls[k].rec)[j], "hemistich1", Str(<<>>)))

\* C23: the records one fetch run has collected have pairwise distinct
\* numbers, and the record fetched for requested ghazal n has number n.
C23_NumbersAreTheRequested ==
    /\ \A j, k \in 1..Len(data) : j # k => data[j].v["number"] # data[k].v["number"]
    /\ \A k \in 1..Len(calls) :
          calls[k].rec # None => calls[k].rec.v["number"] = Lit(ToString(calls[k].i))

====
